---- MODULE Spec2Model ----
(***************************************************************************)
(* Declaration lifecycle and tax-computation engine of the tax-stats       *)
(* service (app/services/tax_stats.py) with its HTTP endpoints             *)
(* (app/api/endpoints/tax_stats.py, admin_declarations.py).                *)
(*                                                                         *)
(* Representation                                                          *)
(*   datetime        <<year, month, day, second-of-day>> (UTC); <<>> = None *)
(*   str / ObjectId  a string; None (below) is Python's None or a key that *)
(*                   the document does not carry (dict.get gives None)     *)
(*   _id             the position of the document in its collection        *)
(*   money           whole GEL (the ledger amounts used are multiples of   *)
(*                   100, so 1% of a sum is a whole number)                *)
(***************************************************************************)
EXTENDS Integers, Sequences, FiniteSets, TLC

VARIABLES
    tax_declarations,   \* db.tax_declarations: sequence of documents
    transactions,       \* db.transactions (the income ledger)
    clock,              \* index of the current instant, datetime.now() = Now
    last,               \* the last request handled and what its caller got
    procs               \* in-flight _get_or_create_declaration coroutines

vars == <<tax_declarations, transactions, clock, last, procs>>

---------------------------------------------------------------------------
(* Bounds of the model *)

MaxDecls  == 1     \* documents the store may hold in the sequential runs
MaxTx     == 1     \* records the income ledger may hold
MaxClock  == 1     \* clock ticks (one month each)
NumProcs  == 2     \* concurrent generator coroutines

---------------------------------------------------------------------------
(* Program constants *)

TAX_RATE_PERCENT == 1      \* TAX_RATE = 0.01
FILING_DAY       == 15
SERVICE_FEE      == 50     \* "payment_amount": 50.00

None     == "<None>"
NoDate   == <<>>
NoAmount == -1             \* no payment_amount key on the document

PENDING          == "pending"
SUBMITTED        == "submitted"
OVERDUE          == "overdue"
AWAITING_PAYMENT == "awaiting_payment"
PAYMENT_RECEIVED == "payment_received"
IN_PROGRESS      == "in_progress"
FILED_BY_ADMIN   == "filed_by_admin"
REJECTED         == "rejected"

DeclarationStatus ==
    {PENDING, SUBMITTED, OVERDUE, AWAITING_PAYMENT, PAYMENT_RECEIVED,
     IN_PROGRESS, FILED_BY_ADMIN, REJECTED}

---------------------------------------------------------------------------
(* Inputs *)

Users  == {"u1", "u2"}
Admins == {"a1", "a2"}
Years  == {2025}
Months == {11, 12}
Keys   == Users \X Years \X Months     \* (user_id, year, month)
DeclIds == 1..MaxDecls                 \* declaration_id path parameters
Amounts == {22000}                     \* amount_gel of a ledger record

\* datetime comparison a < b
DtLess(a, b) ==
    \/ a[1] < b[1]
    \/ a[1] = b[1] /\ a[2] < b[2]
    \/ a[1] = b[1] /\ a[2] = b[2] /\ a[3] < b[3]
    \/ a[1] = b[1] /\ a[2] = b[2] /\ a[3] = b[3] /\ a[4] < b[4]

DtLeq(a, b) == a = b \/ DtLess(a, b)

\* Calendar arithmetic of datetime: the days from 2000-01-01 to the first of
\* a month, the seconds from 2000-01-01 00:00:00 to an instant
IsLeap(y) == (y % 4 = 0 /\ y % 100 # 0) \/ y % 400 = 0

DaysInMonth(y, m) ==
    IF m = 2 THEN (IF IsLeap(y) THEN 29 ELSE 28)
    ELSE IF m \in {4, 6, 9, 11} THEN 30 ELSE 31

RECURSIVE DaysBeforeMonth(_, _)
DaysBeforeMonth(y, m) ==
    IF m = 1
    THEN 365 * (y - 2000) + Cardinality({z \in 2000..(y - 1) : IsLeap(z)})
    ELSE DaysBeforeMonth(y, m - 1) + DaysInMonth(y, m - 1)

Seconds(dt) == (DaysBeforeMonth(dt[1], dt[2]) + dt[3] - 1) * 86400 + dt[4]

\* (a - b).days: the whole days of a timedelta, rounded down
TimedeltaDays(a, b) == (Seconds(a) - Seconds(b)) \div 86400

\* n / d to the nearest whole number (d > 0)
RoundDiv(n, d) == IF 2 * (n % d) >= d THEN (n \div d) + 1 ELSE n \div d

\* Noons around the deadlines of 15 December 2025 and 15 January 2026: 10,
\* 7, 3 days and 1 day before the first, the day after it, the day after the
\* second, and the days that follow
DayInstant(i) ==
    LET noons == << <<2025, 12, 5, 43200>>, <<2025, 12, 8, 43200>>,
                    <<2025, 12, 12, 43200>>, <<2025, 12, 14, 43200>>,
                    <<2025, 12, 16, 43200>>, <<2026, 1, 16, 43200>> >>
    IN  IF i \in DOMAIN noons THEN noons[i]
        ELSE <<2026, 1, 16 + (i - Len(noons)), 43200>>

\* The clock values that stand for DayInstant(i)
DayClock(i) == 100 + i

\* The instants the clock takes: 2025-11-20 12:00:00 UTC, then one month later
\* at each tick; or, where the clock runs by days, the noons of DayInstant
Instant(k) ==
    IF k > DayClock(0) THEN DayInstant(k - DayClock(0))
    ELSE LET m0 == 10 + k
         IN  <<2025 + (m0 \div 12), (m0 % 12) + 1, 20, 43200>>

Now == Instant(clock)

SubmittedDates == {NoDate, <<2025, 11, 1, 36000>>}   \* MarkDeclarationRequest
ConfirmationNumbers == {None, "RS-1"}                \* DeclarationFilingComplete
AdminNotes == {None, "memo"}
CorrectionNotes == {"", "fix income"}                \* DeclarationReject
PaymentIds == {"MOCK_PAY_A", "MOCK_PAY_B"}           \* uuid4().hex[:12].upper()

---------------------------------------------------------------------------
(* An assignment: `value` is computed once and Body is evaluated with it   *)
(* (name = value; Body(name)).                                              *)

With(value, Body(_)) == CHOOSE out \in {Body(x) : x \in {value}} : TRUE

---------------------------------------------------------------------------
(* The document store *)

\* A lookup that never finds the document
FindOneMisses(coll, u, y, m) == 0

\* A lookup by year and month alone, whoever the owner is
FindOneOfAnyUser(coll, u, y, m) ==
    LET hits == {i \in DOMAIN coll : coll[i].year = y /\ coll[i].month = m}
    IN  IF hits = {} THEN 0 ELSE CHOOSE i \in hits : \A j \in hits : i <= j

\* find_one({"user_id", "year", "month"}): the _id of the first match, 0 if none
FindOne(coll, u, y, m) ==
    LET hits == {i \in DOMAIN coll :
                    coll[i].user_id = u /\ coll[i].year = y /\ coll[i].month = m}
    IN  IF hits = {} THEN 0 ELSE CHOOSE i \in hits : \A j \in hits : i <= j

\* An update whose filter matches every document
UpdateEvery(coll, i, fields) ==
    [j \in DOMAIN coll |-> fields @@ coll[j]]

\* update_one({"_id": i}, {"$set": fields})
UpdateOne(coll, i, fields) ==
    [coll EXCEPT ![i] = fields @@ coll[i]]

\* A collection without the unique index: no insert is ever rejected
NoUniqueIndex(coll, doc) == FALSE

\* The unique index user_year_month_unique rejects a second document of a key.
DuplicateKey(coll, doc) ==
    FindOne(coll, doc.user_id, doc.year, doc.month) # 0

\* insert_one(doc): the collection afterwards and whether DuplicateKeyError
\* was raised
InsertOne(coll, doc) ==
    IF DuplicateKey(coll, doc)
    THEN [coll |-> coll, error |-> TRUE]
    ELSE [coll |-> Append(coll, doc), error |-> FALSE]

---------------------------------------------------------------------------
(* Declaration Generator: TaxStatsService._get_or_create_declaration *)

RECURSIVE SumAmounts(_, _)
SumAmounts(txs, ids) ==
    IF ids = <<>> THEN 0
    ELSE txs[Head(ids)].amount_gel + SumAmounts(txs, Tail(ids))

\* [start_date, end_date) of the declared month
MonthStart(y, m) == <<y, m, 1, 0>>
MonthEnd(y, m) == IF m = 12 THEN <<y + 1, 1, 1, 0>> ELSE <<y, m + 1, 1, 0>>

\* The $match/$group pipeline over db.transactions: ids in collection order
RECURSIVE MatchIds(_, _, _, _, _)
MatchIds(txs, i, u, y, m) ==
    IF i > Len(txs) THEN <<>>
    ELSE LET t == txs[i]
             hit == /\ t.user_id = u
                    /\ DtLeq(MonthStart(y, m), t.transaction_date)
                    /\ DtLess(t.transaction_date, MonthEnd(y, m))
         IN  (IF hit THEN <<i>> ELSE <<>>) \o MatchIds(txs, i + 1, u, y, m)

Aggregate(txs, u, y, m) ==
    With(MatchIds(txs, 1, u, y, m), LAMBDA ids :
         [total_income |-> SumAmounts(txs, ids),
          count |-> Len(ids),
          transaction_ids |-> ids])

\* A deadline that does not carry December over into the next year
FilingDeadlineNoWrap(y, m) == <<y, m + 1, FILING_DAY, 86399>>

\* 15th of the next month, 23:59:59 UTC
FilingDeadline(y, m) ==
    IF m = 12 THEN <<y + 1, 1, FILING_DAY, 86399>>
    ELSE <<y, m + 1, FILING_DAY, 86399>>

\* A tax of 2% of the income
TaxDueTwoPercent(income) == (income * 2) \div 100

\* income * TAX_RATE
TaxDue(income) == (income * TAX_RATE_PERCENT) \div 100

\* A creation that takes no account of the income
InitialStatusAnyIncome(deadline, income, t) ==
    IF DtLess(deadline, t) THEN OVERDUE ELSE PENDING

InitialStatus(deadline, income, t) ==
    IF DtLess(deadline, t)
    THEN (IF income > 0 THEN OVERDUE ELSE PENDING)
    ELSE PENDING

\* Keys that declaration_doc does not carry at creation
AbsentFields ==
    [payment_status |-> None, payment_amount |-> NoAmount,
     filing_method |-> None, mock_payment_id |-> None, payment_date |-> NoDate,
     filed_by_admin_id |-> None, filed_by_admin_at |-> NoDate,
     admin_notes |-> None, requires_correction |-> FALSE,
     correction_notes |-> None]

NewDeclaration(txs, t, u, y, m) ==
    With(Aggregate(txs, u, y, m), LAMBDA agg :
         [user_id |-> u, year |-> y, month |-> m,
          income_gel |-> agg.total_income,
          tax_due_gel |-> TaxDue(agg.total_income),
          transaction_count |-> agg.count,
          transaction_ids |-> agg.transaction_ids,
          status |-> InitialStatus(FilingDeadline(y, m), agg.total_income, t),
          filing_deadline |-> FilingDeadline(y, m),
          submitted_date |-> NoDate,
          auto_generated_at |-> t, created_at |-> t, updated_at |-> t]
         @@ AbsentFields)

\* A reclassification that ignores the deadline
StaleWhenPending(doc, t) == doc.status = PENDING

\* Whether the generator reclassifies an existing document as overdue
IsStalePending(doc, t) ==
    doc.status = PENDING /\ DtLess(doc.filing_deadline, t)

\* The whole call, run without interruption: the store afterwards, the _id of
\* the returned document (0 when insert_one raised) and the returned status
\* What the call gives after insert_one: the new document's _id, or the
\* DuplicateKeyError that insert_one raised
Inserted(r) ==
    [coll |-> r.coll, id |-> IF r.error THEN 0 ELSE Len(r.coll),
     error |-> r.error]

\* A generator that derives the figures of an existing document again from
\* the ledger
GetOrCreateRederive(coll, txs, t, u, y, m) ==
    With(FindOne(coll, u, y, m), LAMBDA existing :
         IF existing # 0
         THEN With(Aggregate(txs, u, y, m), LAMBDA agg :
                   [coll |-> UpdateOne(coll, existing,
                                [income_gel |-> agg.total_income,
                                 tax_due_gel |-> TaxDue(agg.total_income),
                                 transaction_count |-> agg.count,
                                 transaction_ids |-> agg.transaction_ids]),
                    id |-> existing, error |-> FALSE])
         ELSE With(NewDeclaration(txs, t, u, y, m), LAMBDA declaration_doc :
                   With(InsertOne(coll, declaration_doc), Inserted)))

GetOrCreate(coll, txs, t, u, y, m) ==
    With(FindOne(coll, u, y, m), LAMBDA existing :
         IF existing # 0
         THEN IF IsStalePending(coll[existing], t)
              THEN [coll |-> UpdateOne(coll, existing, [status |-> OVERDUE]),
                    id |-> existing, error |-> FALSE]
              ELSE [coll |-> coll, id |-> existing, error |-> FALSE]
         ELSE With(NewDeclaration(txs, t, u, y, m), LAMBDA declaration_doc :
                   With(InsertOne(coll, declaration_doc), Inserted)))

\* The model's cap on the store: a call that would create a document is taken
\* only while there is room.
HasRoom(coll, u, y, m) == FindOne(coll, u, y, m) # 0 \/ Len(coll) < MaxDecls

---------------------------------------------------------------------------
(* Lifecycle State Machine: the service methods.  Each gives the store      *)
(* afterwards, the outcome (svc: "ok", or the error raised) and the status  *)
(* its error message names.                                                 *)

Outcome(coll, id, svc, named) ==
    [coll |-> coll, id |-> id, svc |-> svc, named |-> named]

StatusOf(coll, i) == IF i \in DOMAIN coll THEN coll[i].status ELSE None

\* An update that would set the status without recording the date
MarkSubmittedFieldsUndated(t, submitted_date) ==
    [status |-> SUBMITTED, updated_at |-> t]

\* TaxStatsService.mark_declaration_submitted: update_one on the key, no
\* condition on the stored status; True iff modified_count > 0
MarkSubmittedFields(t, submitted_date) ==
    [status |-> SUBMITTED,
     submitted_date |-> IF submitted_date = NoDate THEN t ELSE submitted_date,
     updated_at |-> t]

mark_declaration_submitted(coll, t, u, y, m, submitted_date) ==
    With(FindOne(coll, u, y, m), LAMBDA i :
         IF i = 0 THEN Outcome(coll, 0, "false", None)
         ELSE With(UpdateOne(coll, i, MarkSubmittedFields(t, submitted_date)),
                   LAMBDA new :
                   Outcome(new, i, IF new # coll THEN "ok" ELSE "false", None)))

\* TaxStatsService.request_filing_service
AlreadyPaid(doc) == doc.payment_status = "paid"

\* A status check that would let a repeated request through
CanRequestFilingAgain(doc) ==
    doc.status \in {PENDING, OVERDUE, AWAITING_PAYMENT}

CanRequestFiling(doc) == doc.status \in {PENDING, OVERDUE}

RequestFilingFields(t, payment_id) ==
    [status |-> AWAITING_PAYMENT, payment_status |-> "unpaid",
     payment_amount |-> SERVICE_FEE, filing_method |-> "admin_filed",
     mock_payment_id |-> payment_id, updated_at |-> t]

request_filing_service(coll, txs, t, u, y, m, payment_id) ==
    With(GetOrCreate(coll, txs, t, u, y, m), LAMBDA g :
         IF g.error THEN Outcome(g.coll, 0, "DuplicateKeyError", None)
         ELSE IF AlreadyPaid(g.coll[g.id])
         THEN Outcome(g.coll, g.id, "already_paid", None)
         ELSE IF ~CanRequestFiling(g.coll[g.id])
         THEN Outcome(g.coll, g.id, "invalid_status", g.coll[g.id].status)
         ELSE Outcome(UpdateOne(g.coll, g.id,
                                RequestFilingFields(t, payment_id)),
                      g.id, "ok", None))

\* A status check that would also take a payment before any request
CanPayUnrequested(doc) == doc.status \in {AWAITING_PAYMENT, PENDING, OVERDUE}

\* TaxStatsService.process_mock_payment
CanPay(doc) == doc.status = AWAITING_PAYMENT

PaymentFields(t) ==
    [status |-> PAYMENT_RECEIVED, payment_status |-> "paid",
     payment_date |-> t, updated_at |-> t]

process_mock_payment(coll, t, u, y, m) ==
    With(FindOne(coll, u, y, m), LAMBDA i :
         IF i = 0 THEN Outcome(coll, 0, "not_found", None)
         ELSE IF ~CanPay(coll[i])
         THEN Outcome(coll, i, "invalid_status", coll[i].status)
         ELSE Outcome(UpdateOne(coll, i, PaymentFields(t)), i, "ok", None))

\* The keys of the dict process_mock_payment returns, and the fields
\* PaymentResponse requires (those without a default)
PaymentResultKeys ==
    {"declaration_id", "payment_id", "amount", "status", "paid_at", "message"}

PaymentResponseRequired ==
    {"declaration_id", "payment_id", "income_gel", "tax_amount", "service_fee",
     "total_amount", "status", "paid_at"}

\* PaymentResponse(**result) validates
PaymentResponseValid(keys) == PaymentResponseRequired \subseteq keys

\* A status check that would start a filing that is not paid for
CanStartUnpaid(doc) == doc.status \in {PAYMENT_RECEIVED, AWAITING_PAYMENT}

\* TaxStatsService.admin_start_filing
CanStart(doc) == doc.status = PAYMENT_RECEIVED

\* An update that would start the filing without recording who started it
StartFieldsAnonymous(t, admin_user_id) ==
    [status |-> IN_PROGRESS, updated_at |-> t]

StartFields(t, admin_user_id) ==
    [status |-> IN_PROGRESS, filed_by_admin_id |-> admin_user_id,
     updated_at |-> t]

admin_start_filing(coll, t, id, admin_user_id) ==
    IF id \notin DOMAIN coll THEN Outcome(coll, 0, "not_found", None)
    ELSE IF ~CanStart(coll[id])
    THEN Outcome(coll, id, "invalid_status", coll[id].status)
    ELSE Outcome(UpdateOne(coll, id, StartFields(t, admin_user_id)),
                 id, "ok", None)

\* A status check that would complete a filing nobody started
CanCompleteUnstarted(doc) == doc.status \in {IN_PROGRESS, PAYMENT_RECEIVED}

\* TaxStatsService.admin_complete_filing
CanComplete(doc) == doc.status = IN_PROGRESS

\* f"{admin_notes or ''}\nRS.ge Confirmation: {confirmation_number}".strip()
ConfirmationNote(admin_notes, confirmation_number) ==
    IF admin_notes \in {None, ""}
    THEN "RS.ge Confirmation: " \o confirmation_number
    ELSE admin_notes \o "\nRS.ge Confirmation: " \o confirmation_number

CompleteFields(t, confirmation_number, admin_notes) ==
    LET base == [status |-> FILED_BY_ADMIN, filed_by_admin_at |-> t,
                 submitted_date |-> t, updated_at |-> t]
    IN  IF confirmation_number \notin {None, ""}
        THEN [admin_notes |->
                 ConfirmationNote(admin_notes, confirmation_number)] @@ base
        ELSE IF admin_notes \notin {None, ""}
        THEN [admin_notes |-> admin_notes] @@ base
        ELSE base

admin_complete_filing(coll, t, id, admin_user_id, confirmation_number, admin_notes) ==
    IF id \notin DOMAIN coll THEN Outcome(coll, 0, "not_found", None)
    ELSE IF ~CanComplete(coll[id])
    THEN Outcome(coll, id, "invalid_status", coll[id].status)
    ELSE Outcome(UpdateOne(coll, id,
                     CompleteFields(t, confirmation_number, admin_notes)),
                 id, "ok", None)

\* TaxStatsService.admin_reject_declaration
CanReject(doc) == doc.status \in {PAYMENT_RECEIVED, IN_PROGRESS}

\* An update that would reject without the correction flag and notes
RejectFieldsHalf(t, correction_notes, admin_notes) ==
    [status |-> REJECTED, updated_at |-> t]

RejectFields(t, correction_notes, admin_notes) ==
    LET base == [status |-> REJECTED, requires_correction |-> TRUE,
                 correction_notes |-> correction_notes, updated_at |-> t]
    IN  IF admin_notes \notin {None, ""}
        THEN [admin_notes |-> admin_notes] @@ base
        ELSE base

admin_reject_declaration(coll, t, id, admin_user_id, correction_notes, admin_notes) ==
    IF id \notin DOMAIN coll THEN Outcome(coll, 0, "not_found", None)
    ELSE IF ~CanReject(coll[id])
    THEN Outcome(coll, id, "invalid_status", coll[id].status)
    ELSE Outcome(UpdateOne(coll, id,
                     RejectFields(t, correction_notes, admin_notes)),
                 id, "ok", None)

---------------------------------------------------------------------------
(* State *)

\* The last request handled: the operation, the key or declaration_id it
\* addressed, the other arguments of a call that succeeded, the service
\* method's outcome, the HTTP status and the status named in the error detail
\* the caller got, and the store as it was when the request arrived
Called(op, key, id, args, r, http, before) ==
    [op |-> op, key |-> key, id |-> id,
     args |-> IF r.svc = "ok" THEN args ELSE <<>>, svc |-> r.svc,
     http |-> http, named |-> r.named, before |-> before]

\* No request since the store was as in `before`
NoCall(before) ==
    [op |-> "none", key |-> <<>>, id |-> 0, args |-> <<>>, svc |-> None,
     http |-> 0, named |-> None, before |-> before]

\* A coroutine of _get_or_create_declaration: where it stands (pc), the key it
\* was called for, the _id find_one gave it (0: none), the declaration_doc it
\* built, whether insert_one raised DuplicateKeyError, and the _id of the
\* document it returns
Idle ==
    [pc |-> "idle", key |-> <<>>, existing |-> 0, doc |-> <<>>,
     error |-> FALSE, id |-> 0]

Init ==
    /\ tax_declarations = <<>>
    /\ transactions = <<>>
    /\ clock = 0
    /\ last = NoCall(<<>>)
    /\ procs = [p \in 1..NumProcs |-> Idle]

\* Time passes.
Tick ==
    /\ clock < MaxClock
    /\ clock' = clock + 1
    /\ last' = NoCall(tax_declarations)
    /\ UNCHANGED <<tax_declarations, transactions, procs>>

\* The ledger (an external collaborator) records an income dated the 5th of
\* a month.
AddTransaction(u, m, a) ==
    /\ Len(transactions) < MaxTx
    /\ transactions' = Append(transactions,
           [user_id |-> u, transaction_date |-> <<2025, m, 5, 0>>,
            amount_gel |-> a])
    /\ last' = NoCall(tax_declarations)
    /\ UNCHANGED <<tax_declarations, clock, procs>>

---------------------------------------------------------------------------
(* The endpoints, each handled without interruption *)

\* except ValueError as e: raise HTTPException(status_code=400, ...)
ValueErrorStatus(svc) == IF svc = "ok" THEN 200 ELSE 400

\* GET /declarations/{year}/{month}
GetDeclarationDetails(u, y, m) ==
    /\ HasRoom(tax_declarations, u, y, m)
    /\ \E r \in {GetOrCreate(tax_declarations, transactions, Now, u, y, m)} :
           /\ tax_declarations' = r.coll
           /\ last' = Called("details", <<u, y, m>>, r.id, <<>>,
                             Outcome(r.coll, r.id, "ok", None), 200,
                             tax_declarations)
    /\ UNCHANGED <<transactions, clock, procs>>

\* POST /declarations/{year}/{month}/mark-submitted
MarkDeclarationSubmitted(u, y, m, sd) ==
    \E r \in {mark_declaration_submitted(tax_declarations, Now, u, y, m, sd)} :
        \* on success the endpoint reads the details back
        /\ tax_declarations' =
               IF r.svc = "ok"
               THEN GetOrCreate(r.coll, transactions, Now, u, y, m).coll
               ELSE r.coll
        /\ last' = Called("mark", <<u, y, m>>, r.id, <<sd>>, r,
                          IF r.svc = "ok" THEN 200 ELSE 404,
                          tax_declarations)
        /\ UNCHANGED <<transactions, clock, procs>>

\* POST /filing-service/request
RequestFilingService(u, y, m, pid) ==
    /\ HasRoom(tax_declarations, u, y, m)
    /\ \E r \in {request_filing_service(tax_declarations, transactions, Now,
                                          u, y, m, pid)} :
           /\ tax_declarations' = r.coll
           /\ last' = Called("request", <<u, y, m>>, r.id, <<pid>>, r,
                             IF r.svc = "DuplicateKeyError" THEN 500
                             ELSE ValueErrorStatus(r.svc),
                             tax_declarations)
    /\ UNCHANGED <<transactions, clock, procs>>

\* POST /filing-service/pay: a ValidationError of PaymentResponse(**result)
\* is a ValueError, caught by the handler's except ValueError
PayForFilingService(u, y, m) ==
    \E r \in {process_mock_payment(tax_declarations, Now, u, y, m)} :
        /\ tax_declarations' = r.coll
        /\ last' = Called("pay", <<u, y, m>>, r.id, <<>>, r,
                          IF r.svc = "ok"
                             /\ ~PaymentResponseValid(PaymentResultKeys)
                          THEN 400 ELSE ValueErrorStatus(r.svc),
                          tax_declarations)
        /\ UNCHANGED <<transactions, clock, procs>>

\* POST /admin/declarations/{declaration_id}/start
StartFiling(id, a) ==
    \E r \in {admin_start_filing(tax_declarations, Now, id, a)} :
        /\ tax_declarations' = r.coll
        /\ last' = Called("start", <<>>, id, <<a>>, r,
                          ValueErrorStatus(r.svc), tax_declarations)
        /\ UNCHANGED <<transactions, clock, procs>>

\* POST /admin/declarations/{declaration_id}/complete
CompleteFiling(id, a, cn, an) ==
    \E r \in {admin_complete_filing(tax_declarations, Now, id, a, cn, an)} :
        /\ tax_declarations' = r.coll
        /\ last' = Called("complete", <<>>, id, <<a, cn, an>>, r,
                          ValueErrorStatus(r.svc), tax_declarations)
        /\ UNCHANGED <<transactions, clock, procs>>

\* POST /admin/declarations/{declaration_id}/reject
RejectDeclaration(id, a, cnotes, an) ==
    \E r \in {admin_reject_declaration(tax_declarations, Now, id, a, cnotes,
                                        an)} :
        /\ tax_declarations' = r.coll
        /\ last' = Called("reject", <<>>, id, <<a, cnotes, an>>, r,
                          ValueErrorStatus(r.svc), tax_declarations)
        /\ UNCHANGED <<transactions, clock, procs>>

---------------------------------------------------------------------------
(* Spec: sequential runs of the lifecycle operations, for the declarations  *)
(* of one user                                                              *)

SeqKeys == {k \in Keys : k[1] = "u1"}

Details == \E k \in SeqKeys : GetDeclarationDetails(k[1], k[2], k[3])

MarkSubmitted ==
    \E k \in SeqKeys, sd \in SubmittedDates :
        MarkDeclarationSubmitted(k[1], k[2], k[3], sd)

RequestFiling ==
    \E k \in SeqKeys, pid \in PaymentIds :
        RequestFilingService(k[1], k[2], k[3], pid)

Pay == \E k \in SeqKeys : PayForFilingService(k[1], k[2], k[3])

Start == \E id \in DeclIds, a \in Admins : StartFiling(id, a)

Complete ==
    \E id \in DeclIds, a \in Admins, cn \in ConfirmationNumbers,
       an \in AdminNotes : CompleteFiling(id, a, cn, an)

Reject ==
    \E id \in DeclIds, a \in Admins, cnotes \in CorrectionNotes,
       an \in AdminNotes : RejectDeclaration(id, a, cnotes, an)

\* The one income of the sequential runs: 22,000 GEL for u1 in November 2025
AddIncome == AddTransaction("u1", 11, 22000)

Next ==
    \/ Tick
    \/ AddIncome
    \/ Details
    \/ MarkSubmitted
    \/ RequestFiling
    \/ Pay
    \/ Start
    \/ Complete
    \/ Reject

Spec == Init /\ [][Next]_vars

---------------------------------------------------------------------------
(* SpecGen: concurrent calls of _get_or_create_declaration.  A coroutine    *)
(* gives way to the others at each await: find_one, update_one, aggregate   *)
(* and insert_one.                                                          *)

GenKeys == SeqKeys

\* A request handler calls the generator.
GenCall(p, u, y, m) ==
    /\ procs[p].pc = "idle"
    /\ procs' = [procs EXCEPT ![p] = [Idle EXCEPT !.pc = "find",
                                                  !.key = <<u, y, m>>]]
    /\ UNCHANGED <<tax_declarations, transactions, clock, last>>

\* await find_one(...), then the checks on the document read
GenFind(p) ==
    /\ procs[p].pc = "find"
    /\ \E existing \in {FindOne(tax_declarations, procs[p].key[1],
                                 procs[p].key[2], procs[p].key[3])} :
           procs' = [procs EXCEPT ![p] =
               IF existing = 0
               THEN [@ EXCEPT !.pc = "aggregate"]
               ELSE IF IsStalePending(tax_declarations[existing], Now)
               THEN [@ EXCEPT !.pc = "update", !.existing = existing]
               ELSE [@ EXCEPT !.pc = "done", !.existing = existing,
                              !.id = existing]]
    /\ UNCHANGED <<tax_declarations, transactions, clock, last>>

\* await update_one({"_id": existing["_id"]}, {"$set": {"status": "overdue"}})
GenUpdate(p) ==
    /\ procs[p].pc = "update"
    /\ tax_declarations' =
           UpdateOne(tax_declarations, procs[p].existing, [status |-> OVERDUE])
    /\ procs' = [procs EXCEPT ![p] = [@ EXCEPT !.pc = "done",
                                                !.id = procs[p].existing]]
    /\ UNCHANGED <<transactions, clock, last>>

\* await aggregate(pipeline).to_list(1), then declaration_doc is built
GenAggregate(p) ==
    /\ procs[p].pc = "aggregate"
    /\ LET k == procs[p].key
       IN  procs' = [procs EXCEPT ![p] =
               [@ EXCEPT !.pc = "insert",
                         !.doc = NewDeclaration(transactions, Now,
                                                k[1], k[2], k[3])]]
    /\ UNCHANGED <<tax_declarations, transactions, clock, last>>

\* await insert_one(declaration_doc); DuplicateKeyError is not caught
GenInsert(p) ==
    /\ procs[p].pc = "insert"
    /\ Len(tax_declarations) <= Cardinality(GenKeys)
    /\ \E r \in {InsertOne(tax_declarations, procs[p].doc)} :
           /\ tax_declarations' = r.coll
           /\ procs' = [procs EXCEPT ![p] =
                  [@ EXCEPT !.pc = "done", !.error = r.error,
                            !.id = IF r.error THEN 0 ELSE Len(r.coll)]]
    /\ UNCHANGED <<transactions, clock, last>>

\* The caller takes the result (or the exception).
GenReturn(p) ==
    /\ procs[p].pc = "done"
    /\ procs' = [procs EXCEPT ![p] = Idle]
    /\ UNCHANGED <<tax_declarations, transactions, clock, last>>

GenTick ==
    /\ clock < MaxClock
    /\ clock' = clock + 1
    /\ UNCHANGED <<tax_declarations, transactions, last, procs>>

GenIncome ==
    /\ Len(transactions) < MaxTx
    /\ transactions' = Append(transactions,
           [user_id |-> "u1", transaction_date |-> <<2025, 11, 5, 0>>,
            amount_gel |-> 22000])
    /\ UNCHANGED <<tax_declarations, clock, last, procs>>

Call == \E p \in DOMAIN procs, k \in GenKeys : GenCall(p, k[1], k[2], k[3])
Find == \E p \in DOMAIN procs : GenFind(p)
Update == \E p \in DOMAIN procs : GenUpdate(p)
Agg == \E p \in DOMAIN procs : GenAggregate(p)
Insert == \E p \in DOMAIN procs : GenInsert(p)
Return == \E p \in DOMAIN procs : GenReturn(p)

NextGen ==
    \/ GenTick
    \/ GenIncome
    \/ Call
    \/ Find
    \/ Update
    \/ Agg
    \/ Insert
    \/ Return

SpecGen == Init /\ [][NextGen]_vars

---------------------------------------------------------------------------
(* Properties of the sequential runs.  last.before is the store when the    *)
(* last request arrived, tax_declarations the store it left; the clock has  *)
(* not moved since (Tick clears last).                                      *)

Terminal == {SUBMITTED, FILED_BY_ADMIN}

LifecycleOps == {"mark", "request", "pay", "start", "complete", "reject"}

Before(i) == last.before[i]
Decl(i) == tax_declarations[i]

Unchanged == tax_declarations = last.before

\* Every document but i is as it was
OthersUnchanged(i) ==
    /\ Len(tax_declarations) = Len(last.before)
    /\ \A j \in DOMAIN last.before : j # i => Decl(j) = Before(j)

\* C1: terminal states are final: once a declaration's status is submitted or
\* filed_by_admin, no operation changes its status afterwards.
C1_TerminalFinal ==
    \A i \in DOMAIN last.before :
        Before(i).status \in Terminal => Decl(i).status = Before(i).status

\* The edges of the lifecycle
AllowedEdges ==
    {<<PENDING, SUBMITTED>>, <<PENDING, OVERDUE>>, <<PENDING, AWAITING_PAYMENT>>,
     <<OVERDUE, SUBMITTED>>, <<OVERDUE, AWAITING_PAYMENT>>,
     <<AWAITING_PAYMENT, PAYMENT_RECEIVED>>,
     <<PAYMENT_RECEIVED, IN_PROGRESS>>, <<PAYMENT_RECEIVED, REJECTED>>,
     <<IN_PROGRESS, FILED_BY_ADMIN>>, <<IN_PROGRESS, REJECTED>>}
    \cup {<<s, SUBMITTED>> : s \in DeclarationStatus \ Terminal}

\* C2: every change of a declaration's stored status is an allowed edge (or
\* mark-self-submitted from a non-terminal status).
C2_AllowedEdges ==
    \A i \in DOMAIN last.before :
        Decl(i).status # Before(i).status
        => <<Before(i).status, Decl(i).status>> \in AllowedEdges

\* Properties of the concurrent generator calls (SpecGen)

KeyOf(doc) == <<doc.user_id, doc.year, doc.month>>

DocsOf(k) == {i \in DOMAIN tax_declarations : KeyOf(tax_declarations[i]) = k}

\* A call that found no document and went on to insert_one, now finished
FirstTime(p) == procs[p].pc = "done" /\ procs[p].existing = 0

HasInserted(p) == FirstTime(p) /\ ~procs[p].error

\* C3: uniqueness: under any interleaving of generator calls the store holds
\* at most one document per (user_id, year, month); two concurrent first-time
\* calls for one key never both insert and exactly one document exists
\* afterwards.
C3_Uniqueness ==
    /\ \A k \in Keys : Cardinality(DocsOf(k)) <= 1
    /\ \A p, q \in DOMAIN procs :
          (p # q /\ FirstTime(p) /\ FirstTime(q)
             /\ procs[p].key = procs[q].key)
          => /\ ~(HasInserted(p) /\ HasInserted(q))
             /\ Cardinality(DocsOf(procs[p].key)) = 1

\* C3 witness: two first-time calls for one key have raced; one inserted, the
\* other's insert was rejected, and one document exists
C3_Witness ==
    \E p, q \in DOMAIN procs :
        /\ p # q /\ FirstTime(p) /\ FirstTime(q)
        /\ procs[p].key = procs[q].key
        /\ HasInserted(p) /\ procs[q].error
        /\ DocsOf(procs[p].key) = {procs[p].id}

\* C4: the call that loses the race re-reads and returns the winner's record;
\* no finished call surfaces an error to its caller.
C4_LoserReturnsRecord ==
    \A p \in DOMAIN procs :
        procs[p].pc = "done"
        => /\ ~procs[p].error
           /\ procs[p].id \in DocsOf(procs[p].key)

\* C5: a lifecycle action whose caller receives an error response has changed
\* no declaration of the store.
C5_FailureChangesNothing ==
    (last.op \in LifecycleOps /\ last.http # 200) => Unchanged

\* C6: admin complete filing succeeds exactly from in_progress, then sets
\* status = filed_by_admin and filed_by_admin_at = submitted_date = now;
\* from any other status it fails naming the current status and leaves the
\* store as it was.
C6_CompleteGuard ==
    last.op = "complete" =>
        IF StatusOf(last.before, last.id) = IN_PROGRESS
        THEN /\ last.svc = "ok" /\ last.http = 200
             /\ Decl(last.id).status = FILED_BY_ADMIN
             /\ Decl(last.id).filed_by_admin_at = Now
             /\ Decl(last.id).submitted_date = Now
             /\ OthersUnchanged(last.id)
        ELSE /\ last.http = 400
             /\ Unchanged
             /\ last.id \in DOMAIN last.before
                  => /\ last.svc = "invalid_status"
                     /\ last.named = Before(last.id).status

\* C6 witness: complete was refused on a declaration in payment_received
C6_Witness ==
    /\ last.op = "complete" /\ last.http = 400
    /\ last.named = PAYMENT_RECEIVED
    /\ StatusOf(tax_declarations, last.id) = PAYMENT_RECEIVED

\* C7: confirm payment (process_mock_payment) succeeds exactly from
\* awaiting_payment, then sets status = payment_received, payment_status =
\* paid, payment_date = now; in any other status it fails naming the current
\* status and changes nothing.
C7_PayGuard ==
    last.op = "pay" =>
        LET i == FindOne(last.before, last.key[1], last.key[2], last.key[3])
        IN  IF StatusOf(last.before, i) = AWAITING_PAYMENT
            THEN /\ last.svc = "ok"
                 /\ Decl(i).status = PAYMENT_RECEIVED
                 /\ Decl(i).payment_status = "paid"
                 /\ Decl(i).payment_date = Now
                 /\ OthersUnchanged(i)
            ELSE /\ last.svc # "ok" /\ last.http # 200
                 /\ Unchanged
                 /\ i # 0 => /\ last.svc = "invalid_status"
                             /\ last.named = Before(i).status

\* C7 witness: a payment was confirmed
C7_Witness ==
    /\ last.op = "pay" /\ last.svc = "ok"
    /\ StatusOf(last.before, last.id) = AWAITING_PAYMENT
    /\ StatusOf(tax_declarations, last.id) = PAYMENT_RECEIVED

C9_StartGuard ==
    last.op = "start" =>
        IF StatusOf(last.before, last.id) = PAYMENT_RECEIVED
        THEN /\ last.svc = "ok" /\ last.http = 200
             /\ Decl(last.id).status = IN_PROGRESS
             /\ Decl(last.id).filed_by_admin_id = last.args[1]
             /\ OthersUnchanged(last.id)
        ELSE /\ last.http = 400
             /\ Unchanged
             /\ last.id \in DOMAIN last.before
                  => /\ last.svc = "invalid_status"
                     /\ last.named = Before(last.id).status

\* C9 witness: an admin started filing
C9_Witness ==
    /\ last.op = "start" /\ last.svc = "ok"
    /\ StatusOf(last.before, last.id) = PAYMENT_RECEIVED
    /\ StatusOf(tax_declarations, last.id) = IN_PROGRESS
    /\ Decl(last.id).filed_by_admin_id = "a2"

\* C10: admin reject succeeds only from payment_received or in_progress and
\* is atomic: a declaration with status rejected has requires_correction =
\* true and holds the correction_notes of the call that rejected it.
C10_RejectAtomic ==
    /\ \A i \in DOMAIN tax_declarations :
          Decl(i).status = REJECTED
          => /\ Decl(i).requires_correction = TRUE
             /\ Decl(i).correction_notes # None
             /\ i \in DOMAIN last.before
             /\ IF Before(i).status = REJECTED
                THEN Decl(i).correction_notes = Before(i).correction_notes
                ELSE /\ last.op = "reject" /\ last.id = i
                     /\ Before(i).status \in {PAYMENT_RECEIVED, IN_PROGRESS}
                     /\ Decl(i).correction_notes = last.args[2]
    /\ last.op = "reject" =>
          IF StatusOf(last.before, last.id) \in {PAYMENT_RECEIVED, IN_PROGRESS}
          THEN last.svc = "ok" /\ Decl(last.id).status = REJECTED
          ELSE last.svc # "ok" /\ Unchanged

\* C10 witness: a declaration in progress was rejected with its notes
C10_Witness ==
    /\ last.op = "reject" /\ last.svc = "ok"
    /\ StatusOf(last.before, last.id) = IN_PROGRESS
    /\ StatusOf(tax_declarations, last.id) = REJECTED
    /\ Decl(last.id).requires_correction = TRUE
    /\ Decl(last.id).correction_notes = "fix income"

---------------------------------------------------------------------------
(* Admin queue: TaxStatsService.get_admin_queue (a read of the store)       *)

QueueStatuses == {AWAITING_PAYMENT, PAYMENT_RECEIVED, IN_PROGRESS, REJECTED}

\* A cursor in _id order
RECURSIVE Unsorted(_, _)
Unsorted(coll, ids) ==
    IF ids = {} THEN <<>>
    ELSE LET first == CHOOSE i \in ids : \A j \in ids : i <= j
         IN  <<first>> \o Unsorted(coll, ids \ {first})

\* find({"status": {"$in": [...]}}).sort("filing_deadline", 1): the _ids in
\* the order of the cursor (documents of one deadline in _id order)
RECURSIVE SortByDeadline(_, _)
SortByDeadline(coll, ids) ==
    IF ids = {} THEN <<>>
    ELSE LET first == CHOOSE i \in ids : \A j \in ids :
                 \/ DtLess(coll[i].filing_deadline, coll[j].filing_deadline)
                 \/ /\ coll[i].filing_deadline = coll[j].filing_deadline
                    /\ i <= j
         IN  <<first>> \o SortByDeadline(coll, ids \ {first})

\* The item of a declaration (user_email, read from db.users, is left out)
QueueItem(coll, i) ==
    [id |-> i, user_id |-> coll[i].user_id, year |-> coll[i].year,
     month |-> coll[i].month, income_gel |-> coll[i].income_gel,
     tax_due_gel |-> coll[i].tax_due_gel, status |-> coll[i].status,
     filing_deadline |-> coll[i].filing_deadline,
     payment_status |-> IF coll[i].payment_status = None THEN "unpaid"
                        ELSE coll[i].payment_status,
     payment_amount |-> IF coll[i].payment_amount = NoAmount THEN SERVICE_FEE
                        ELSE coll[i].payment_amount,
     payment_date |-> coll[i].payment_date,
     submitted_date |-> coll[i].submitted_date,
     requires_correction |-> coll[i].requires_correction,
     transaction_count |-> coll[i].transaction_count]

\* The items of the cursor whose status is `status`, in cursor order
RECURSIVE Bucket(_, _, _)
Bucket(coll, cursor, status) ==
    IF cursor = <<>> THEN <<>>
    ELSE (IF coll[Head(cursor)].status = status
          THEN <<QueueItem(coll, Head(cursor))>> ELSE <<>>)
         \o Bucket(coll, Tail(cursor), status)

get_admin_queue(coll) ==
    With(SortByDeadline(coll, {i \in DOMAIN coll : coll[i].status \in QueueStatuses}),
         LAMBDA cursor :
         [pending_payment |-> Bucket(coll, cursor, AWAITING_PAYMENT),
          ready_to_file |-> Bucket(coll, cursor, PAYMENT_RECEIVED),
          in_progress |-> Bucket(coll, cursor, IN_PROGRESS),
          needs_correction |-> Bucket(coll, cursor, REJECTED),
          total_count |-> Len(Bucket(coll, cursor, AWAITING_PAYMENT))
                          + Len(Bucket(coll, cursor, PAYMENT_RECEIVED))
                          + Len(Bucket(coll, cursor, IN_PROGRESS))
                          + Len(Bucket(coll, cursor, REJECTED))])

\* Whether declaration i is listed in a bucket
Listed(bucket, i) == \E n \in DOMAIN bucket : bucket[n].id = i

---------------------------------------------------------------------------
(* The happy path of the filing service (sequential runs, Spec)             *)

\* The step of the happy path that a request on a declaration in status s
\* is, and the status it leads to
HappyNext ==
    [request |-> [from |-> PENDING, to |-> AWAITING_PAYMENT],
     pay |-> [from |-> AWAITING_PAYMENT, to |-> PAYMENT_RECEIVED],
     start |-> [from |-> PAYMENT_RECEIVED, to |-> IN_PROGRESS],
     complete |-> [from |-> IN_PROGRESS, to |-> FILED_BY_ADMIN]]

\* The last request was a step of the happy path on declaration i
HappyStep(i) ==
    /\ last.op \in DOMAIN HappyNext
    /\ i \in DOMAIN last.before
    /\ IF last.op \in {"request", "pay"}
       THEN FindOne(last.before, last.key[1], last.key[2], last.key[3]) = i
       ELSE last.id = i
    /\ Before(i).status = HappyNext[last.op].from

\* C11: end-to-end happy path: a declaration generated from one income of
\* 22,000 has income 22000, tax 220 and its deadline on the 15th of the next
\* month, 23:59:59; each of request, pay, start, complete on it reports
\* success and moves it to the next status (after payment it is listed in
\* ready_to_file; after completion submitted_date is set).
C11_HappyPath ==
    \A i \in DOMAIN tax_declarations :
        /\ Decl(i).transaction_count = 1
              => /\ Decl(i).income_gel = 22000
                 /\ Decl(i).tax_due_gel = 220
                 /\ Decl(i).filing_deadline = <<2025, 12, 15, 86399>>
        /\ HappyStep(i)
              => /\ last.http = 200
                 /\ Decl(i).status = HappyNext[last.op].to
                 /\ last.op = "pay"
                       => Listed(get_admin_queue(tax_declarations).ready_to_file, i)
                 /\ last.op = "complete" => Decl(i).submitted_date # NoDate

---------------------------------------------------------------------------
(* The income ledger: TransactionService (app/services/transaction.py).     *)
(* The records are in GEL (exchange rate 1, amount_gel = amount).  _id is   *)
(* the position of a record; a deleted record leaves its position empty.    *)

LedgerDates == {<<2025, 11, 5, 0>>}     \* TransactionCreate.transaction_date
EditedAmounts == {30000}                \* TransactionUpdate.amount
TxIds == 1..MaxTx                       \* transaction_id path parameters

\* The position of a record that delete_one removed
Deleted == [user_id |-> None, transaction_date |-> NoDate, amount_gel |-> 0]

\* TransactionService.get_transaction: find_one({"_id", "user_id"})
get_transaction(txs, id, u) ==
    IF id \in DOMAIN txs /\ txs[id].user_id = u THEN id ELSE 0

\* A ledger request: db.tax_declarations is not among what it touches
LedgerCalled(op, id, svc, http) ==
    Called(op, <<>>, id, <<>>, Outcome(tax_declarations, id, svc, None), http,
           tax_declarations)

\* POST /transactions
CreateTransaction(u, date, amount) ==
    /\ Len(transactions) < MaxTx
    /\ transactions' = Append(transactions,
           [user_id |-> u, transaction_date |-> date, amount_gel |-> amount])
    /\ last' = LedgerCalled("tx_create", Len(transactions) + 1, "ok", 201)
    /\ UNCHANGED <<tax_declarations, clock, procs>>

\* PUT /transactions/{transaction_id} with a new amount
UpdateTransaction(id, u, amount) ==
    \E existing \in {get_transaction(transactions, id, u)} :
        /\ transactions' =
               IF existing = 0 THEN transactions
               ELSE [transactions EXCEPT ![existing].amount_gel = amount]
        /\ last' = IF existing = 0
                   THEN LedgerCalled("tx_update", id, "not_found", 404)
                   ELSE LedgerCalled("tx_update", id, "ok", 200)
        /\ UNCHANGED <<tax_declarations, clock, procs>>

\* DELETE /transactions/{transaction_id}
DeleteTransaction(id, u) ==
    \E existing \in {get_transaction(transactions, id, u)} :
        /\ transactions' =
               IF existing = 0 THEN transactions
               ELSE [transactions EXCEPT ![existing] = Deleted]
        /\ last' = IF existing = 0
                   THEN LedgerCalled("tx_delete", id, "not_found", 404)
                   ELSE LedgerCalled("tx_delete", id, "ok", 204)
        /\ UNCHANGED <<tax_declarations, clock, procs>>

---------------------------------------------------------------------------
(* The reads that go through the generator for every month of a year:      *)
(* get_monthly_tax_breakdown and auto_generate_declarations                *)

\* for month in range(1, 13)
LoopMonths == <<1, 2, 3, 4, 5, 6, 7, 8, 9, 10, 11, 12>>

\* The store after _get_or_create_declaration was called for each month
RECURSIVE GenerateMonths(_, _, _, _, _, _)
GenerateMonths(coll, txs, t, u, y, months) ==
    IF months = <<>> THEN coll
    ELSE GenerateMonths(GetOrCreate(coll, txs, t, u, y, Head(months)).coll,
                        txs, t, u, y, Tail(months))

\* The MonthlyTaxSummary of a declaration the generator returned;
\* days_until_deadline is <<>> where it is None
MonthlyTaxSummary(declaration, t) ==
    [month |-> <<declaration.year, declaration.month>>,
     income_gel |-> declaration.income_gel,
     tax_due_gel |-> declaration.tax_due_gel,
     declaration_status |-> declaration.status,
     filing_deadline |-> declaration.filing_deadline,
     submitted_date |-> declaration.submitted_date,
     days_until_deadline |->
         IF declaration.status = PENDING
            /\ DtLess(t, declaration.filing_deadline)
         THEN <<TimedeltaDays(declaration.filing_deadline, t)>> ELSE <<>>,
     transaction_count |-> declaration.transaction_count]

\* for month in range(1, 13): the store afterwards and months_data (a month
\* for which the generator returned None has no entry)
RECURSIVE MonthsData(_, _, _, _, _, _)
MonthsData(coll, txs, t, u, y, months) ==
    IF months = <<>> THEN [coll |-> coll, months_data |-> <<>>]
    ELSE With(GetOrCreate(coll, txs, t, u, y, Head(months)), LAMBDA r :
         With(MonthsData(r.coll, txs, t, u, y, Tail(months)), LAMBDA rest :
              [coll |-> rest.coll,
               months_data |->
                   (IF r.id = 0 THEN <<>>
                    ELSE <<MonthlyTaxSummary(r.coll[r.id], t)>>)
                   \o rest.months_data]))

\* The sum of a field over the entries of months_data
RECURSIVE Total(_, _)
Total(months_data, field) ==
    IF months_data = <<>> THEN 0
    ELSE Head(months_data)[field] + Total(Tail(months_data), field)

\* An average over the twelve months of the year
AverageOverYear(total, count) == RoundDiv(total * 100, 12)

\* total / count if count else 0.0, rounded to hundredths of a GEL
AverageOf(total, count) ==
    IF count > 0 THEN RoundDiv(total * 100, count) ELSE 0

\* TaxStatsService.get_monthly_tax_breakdown: the store afterwards and the
\* MonthlyTaxBreakdown (the averages in hundredths of a GEL)
get_monthly_tax_breakdown(coll, txs, t, u, year) ==
    With(MonthsData(coll, txs, t, u, year, LoopMonths), LAMBDA r :
         [coll |-> r.coll,
          result |->
              [year |-> year,
               months |-> r.months_data,
               total_income_gel |-> Total(r.months_data, "income_gel"),
               total_tax_gel |-> Total(r.months_data, "tax_due_gel"),
               avg_monthly_income_gel |->
                   AverageOf(Total(r.months_data, "income_gel"),
                             Len(SelectSeq(r.months_data,
                                           LAMBDA x : x.income_gel > 0))),
               avg_monthly_tax_gel |->
                   AverageOf(Total(r.months_data, "tax_due_gel"),
                             Len(SelectSeq(r.months_data,
                                           LAMBDA x : x.tax_due_gel > 0)))]])

\* GET /tax-stats/monthly
GetMonthlyTaxBreakdown(u, y) ==
    \E r \in {get_monthly_tax_breakdown(tax_declarations, transactions, Now,
                                        u, y)} :
        /\ tax_declarations' = r.coll
        /\ last' = [result |-> r.result]
                   @@ Called("breakdown", <<u, y>>, 0, <<>>,
                             Outcome(r.coll, 0, "ok", None), 200,
                             tax_declarations)
        /\ UNCHANGED <<transactions, clock, procs>>

\* POST /tax-stats/auto-generate/{year}
AutoGenerateDeclarations(u, y) ==
    \E coll \in {GenerateMonths(tax_declarations, transactions, Now, u, y,
                                LoopMonths)} :
        /\ tax_declarations' = coll
        /\ last' = Called("generate", <<u, y>>, 0, <<>>,
                          Outcome(coll, 0, "ok", None), 200, tax_declarations)
        /\ UNCHANGED <<transactions, clock, procs>>

---------------------------------------------------------------------------
(* SpecLedger: the ledger changes while declarations are read, for one user *)

LedgerCreate ==
    \E d \in LedgerDates, a \in Amounts : CreateTransaction("u1", d, a)

LedgerUpdate ==
    \E id \in TxIds, a \in EditedAmounts : UpdateTransaction(id, "u1", a)

LedgerDelete == \E id \in TxIds : DeleteTransaction(id, "u1")

Breakdown == \E y \in Years : GetMonthlyTaxBreakdown("u1", y)

AutoGenerate == \E y \in Years : AutoGenerateDeclarations("u1", y)

LedgerRequestFiling ==
    \E k \in SeqKeys : RequestFilingService(k[1], k[2], k[3], "MOCK_PAY_A")

NextLedger ==
    \/ Tick
    \/ LedgerCreate
    \/ LedgerUpdate
    \/ LedgerDelete
    \/ Details
    \/ Breakdown
    \/ AutoGenerate
    \/ LedgerRequestFiling

SpecLedger == Init /\ [][NextLedger]_vars

---------------------------------------------------------------------------
(* Properties of the generator's reads (SpecLedger)                         *)

GeneratorReads == {"details", "breakdown", "generate", "request"}

\* The last request read declaration i of the store through the generator
ReadBy(i) ==
    /\ i \in DOMAIN last.before
    /\ \/ /\ last.op \in {"details", "request"}
          /\ KeyOf(Before(i)) = last.key
       \/ /\ last.op \in {"breakdown", "generate"}
          /\ Before(i).user_id = last.key[1]
          /\ Before(i).year = last.key[2]
          /\ \E n \in DOMAIN LoopMonths : Before(i).month = LoopMonths[n]

\* Declaration i as the generator returns it: overdue if it was pending with
\* its deadline in the past, else as it was
AsRead(i) ==
    IF Before(i).status = PENDING /\ DtLess(Before(i).filing_deadline, Now)
    THEN [Before(i) EXCEPT !.status = OVERDUE]
    ELSE Before(i)

\* C12: overdue reclassification: a pending declaration whose deadline is in
\* the past becomes overdue on the next read (details, monthly breakdown, bulk
\* generation, request filing) with no other field altered; a pending
\* declaration whose deadline has not passed and any non-pending declaration
\* are returned unchanged (request filing then applies its own update to what
\* it read).
C12_OverdueOnRead ==
    \A i \in DOMAIN last.before :
        /\ ReadBy(i)
              => Decl(i) = IF last.op = "request" /\ last.svc = "ok"
                           THEN RequestFilingFields(Now, last.args[1])
                                @@ AsRead(i)
                           ELSE AsRead(i)
        /\ (last.op \in GeneratorReads /\ ~ReadBy(i)) => Decl(i) = Before(i)

\* C12 witness: a declaration that was pending with its deadline passed has
\* been read and is overdue, all else as it was
C12_Witness ==
    \E i \in DOMAIN last.before :
        /\ last.op = "details" /\ ReadBy(i)
        /\ Before(i).status = PENDING
        /\ DtLess(Before(i).filing_deadline, Now)
        /\ Decl(i) = [Before(i) EXCEPT !.status = OVERDUE]

\* The documents the last request created
Created == DOMAIN tax_declarations \ DOMAIN last.before

\* C13: initial status at creation: a newly generated declaration is overdue
\* exactly when its income is above 0 and its filing deadline has already
\* passed at creation time; in every other case it is pending.
C13_InitialStatus ==
    last.op \in {"details", "breakdown", "generate"} =>
        \A i \in Created :
            Decl(i).status =
                IF Decl(i).income_gel > 0
                   /\ DtLess(Decl(i).filing_deadline, Decl(i).created_at)
                THEN OVERDUE ELSE PENDING

\* C13 witness: a declaration with income was created after its deadline and
\* is overdue
C13_Witness ==
    \E i \in Created :
        /\ last.op = "details"
        /\ Decl(i).income_gel > 0
        /\ DtLess(Decl(i).filing_deadline, Decl(i).created_at)
        /\ Decl(i).created_at = Now
        /\ Decl(i).status = OVERDUE

\* Other cases of creation: no income after the deadline, income before it
C13_NoIncomeLate ==
    \E i \in Created :
        /\ Decl(i).income_gel = 0
        /\ DtLess(Decl(i).filing_deadline, Decl(i).created_at)
        /\ Decl(i).status = PENDING

C13_IncomeInTime ==
    \E i \in Created :
        /\ Decl(i).income_gel > 0
        /\ ~DtLess(Decl(i).filing_deadline, Decl(i).created_at)
        /\ Decl(i).status = PENDING

\* What a declaration holds of the ledger
Snapshot(doc) ==
    [income_gel |-> doc.income_gel, tax_due_gel |-> doc.tax_due_gel,
     transaction_count |-> doc.transaction_count,
     transaction_ids |-> doc.transaction_ids]

\* The generator called now for the key of declaration i, which an earlier
\* call returned
CalledAgain(i) ==
    GetOrCreate(tax_declarations, transactions, Now,
                Decl(i).user_id, Decl(i).year, Decl(i).month)

\* C14: idempotent generation: a second call of the generator for the same
\* (user, year, month) returns the record of the first call with identical
\* income, tax due and transaction count, and creates no new record.
C14_Idempotent ==
    \A i \in DOMAIN tax_declarations :
        \E again \in {CalledAgain(i)} :
            /\ ~again.error
            /\ again.id = i
            /\ Len(again.coll) = Len(tax_declarations)
            /\ again.coll[i].income_gel = Decl(i).income_gel
            /\ again.coll[i].tax_due_gel = Decl(i).tax_due_gel
            /\ again.coll[i].transaction_count = Decl(i).transaction_count

\* C14 witness: the generator was called for a key whose record, made from one
\* ledger record, existed already: no record was created and the values are
\* those of the first call
C14_Witness ==
    /\ last.op = "details"
    /\ last.id \in DOMAIN last.before
    /\ KeyOf(Before(last.id)) = last.key
    /\ Len(tax_declarations) = Len(last.before)
    /\ Decl(last.id).transaction_count = 1
    /\ Snapshot(Decl(last.id)) = Snapshot(Before(last.id))
    /\ CalledAgain(last.id).coll = tax_declarations

LedgerOps == {"tx_create", "tx_update", "tx_delete"}

\* The ledger's present figures for the month of declaration i
LedgerNow(i) ==
    Aggregate(transactions, Decl(i).user_id, Decl(i).year, Decl(i).month)

C15_ReadAfterAdd ==
    \E i \in DOMAIN last.before :
        /\ last.op \in {"details", "breakdown", "generate"} /\ ReadBy(i)
        /\ Decl(i).transaction_count = 0
        /\ LedgerNow(i).count = 1

\* 23:59:59 on day 15 of the month after month m of year y
FifteenthOfNextMonth(y, m) ==
    IF m < 12 THEN <<y, m + 1, 15, 23 * 3600 + 59 * 60 + 59>>
    ELSE <<y + 1, 1, 15, 23 * 3600 + 59 * 60 + 59>>

\* C16: deadline arithmetic: the filing_deadline of every generated
\* declaration is 23:59:59 UTC on day 15 of the month following the declared
\* month: (year, m+1, 15) for m < 12 and (year+1, 1, 15) for month 12; month 6
\* gives 15 July of the same year, month 12 gives 15 January of year+1.
C16_Deadline ==
    /\ \A i \in DOMAIN tax_declarations :
           Decl(i).filing_deadline =
               FifteenthOfNextMonth(Decl(i).year, Decl(i).month)
    /\ \A y \in Years, m \in 1..12 :
           FilingDeadline(y, m) = FifteenthOfNextMonth(y, m)
    /\ FilingDeadline(2025, 6) = <<2025, 7, 15, 86399>>
    /\ FilingDeadline(2025, 12) = <<2026, 1, 15, 86399>>

\* C16 witness: the declarations of November and December 2025 were generated,
\* with deadlines 15 December 2025 and 15 January 2026
C16_Witness ==
    \E i, j \in Created :
        /\ last.op = "breakdown"
        /\ Decl(i).month = 11 /\ Decl(i).filing_deadline = <<2025, 12, 15, 86399>>
        /\ Decl(j).month = 12 /\ Decl(j).filing_deadline = <<2026, 1, 15, 86399>>

---------------------------------------------------------------------------
(* Year-over-year comparison: TaxStatsService.get_tax_comparison.           *)
(* round(x, 2) of a quotient is held in hundredths; None is <<>> and a      *)
(* value v is <<v>>.                                                        *)

MaxCompareTx == 2        \* ledger records in the comparison runs

RECURSIVE SumOver(_, _, _)
SumOver(coll, ids, field) ==
    IF ids = {} THEN 0
    ELSE LET i == CHOOSE j \in ids : TRUE
         IN  coll[i][field] + SumOver(coll, ids \ {i}, field)

\* sorted(years, reverse=True)
RECURSIVE SortedReverse(_)
SortedReverse(years) ==
    IF years = <<>> THEN <<>>
    ELSE LET n == CHOOSE k \in DOMAIN years :
                      \A j \in DOMAIN years : years[k] >= years[j]
         IN  <<years[n]>> \o
             SortedReverse([k \in 1..(Len(years) - 1) |->
                               IF k < n THEN years[k] ELSE years[k + 1]])

\* years[:5]
FirstFive(years) == SubSeq(years, 1, IF Len(years) < 5 THEN Len(years) ELSE 5)

\* The summary of one year, given the income of the year handled before it
YearlyTaxSummary(coll, u, year, previous_income) ==
    With({i \in DOMAIN coll : coll[i].user_id = u /\ coll[i].year = year},
         LAMBDA declarations :
         With(SumOver(coll, declarations, "income_gel"), LAMBDA total_income :
              With(Cardinality({i \in declarations : coll[i].income_gel > 0}),
                   LAMBDA months_with_income :
                   [year |-> year,
                    total_income_gel |-> total_income,
                    total_tax_gel |-> SumOver(coll, declarations, "tax_due_gel"),
                    avg_monthly_income_gel |->
                        IF months_with_income > 0
                        THEN RoundDiv(total_income * 100, months_with_income)
                        ELSE 0,
                    months_with_income |-> months_with_income,
                    growth_vs_previous |->
                        IF previous_income # <<>> /\ previous_income[1] > 0
                        THEN <<RoundDiv((total_income - previous_income[1])
                                            * 10000, previous_income[1])>>
                        ELSE <<>>])))

\* for year in years: ...; previous_income = total_income
RECURSIVE YearlySummaries(_, _, _, _)
YearlySummaries(coll, u, years, previous_income) ==
    IF years = <<>> THEN <<>>
    ELSE With(YearlyTaxSummary(coll, u, Head(years), previous_income),
              LAMBDA summary :
              <<summary>> \o YearlySummaries(coll, u, Tail(years),
                                             <<summary.total_income_gel>>))

get_tax_comparison(coll, u, years) ==
    With(YearlySummaries(coll, u, SortedReverse(FirstFive(years)), <<>>),
         LAMBDA yearly_summaries :
         [years |-> yearly_summaries,
          total_tax_paid_all_years |->
              SumOver(yearly_summaries, DOMAIN yearly_summaries,
                      "total_tax_gel")])

\* GET /tax-stats/comparison?years=...
GetTaxComparison(u, years) ==
    /\ last' = IF Len(years) > 5
               THEN [result |-> <<>>] @@
                    Called("comparison", <<u, years>>, 0, <<>>,
                           Outcome(tax_declarations, 0, "too_many_years", None),
                           400, tax_declarations)
               ELSE [result |-> get_tax_comparison(tax_declarations, u, years)]
                    @@ Called("comparison", <<u, years>>, 0, <<>>,
                              Outcome(tax_declarations, 0, "ok", None), 200,
                              tax_declarations)
    /\ UNCHANGED <<tax_declarations, transactions, clock, procs>>

---------------------------------------------------------------------------
(* SpecCompare: incomes of several years are recorded, declarations are     *)
(* generated and the years are compared                                     *)

CompareYears == {2023, 2024, 2025}     \* years that may be asked for
GenerateYears == {2024, 2025}          \* years whose declarations are generated

\* The incomes recorded: 10,000 in December 2024 and 15,000 in November 2025
CompareIncomes == {<<<<2024, 12, 5, 0>>, 10000>>, <<<<2025, 11, 5, 0>>, 15000>>}

\* The lists of years asked for: one to three different years, in any order
YearLists ==
    {ys \in UNION {[1..n -> CompareYears] : n \in 1..3} :
        \A a, b \in DOMAIN ys : a # b => ys[a] # ys[b]}

CompareCreate ==
    \E rec \in CompareIncomes :
        /\ Len(transactions) < MaxCompareTx
        /\ transactions' = Append(transactions,
               [user_id |-> "u1", transaction_date |-> rec[1],
                amount_gel |-> rec[2]])
        /\ last' = LedgerCalled("tx_create", Len(transactions) + 1, "ok", 201)
        /\ UNCHANGED <<tax_declarations, clock, procs>>

CompareGenerate == \E y \in GenerateYears : AutoGenerateDeclarations("u1", y)

Compare == \E years \in YearLists : GetTaxComparison("u1", years)

NextCompare ==
    \/ CompareCreate
    \/ CompareGenerate
    \/ Compare

SpecCompare == Init /\ [][NextCompare]_vars

\* Properties of the comparison (SpecCompare)

\* The income of a year: the sum over the user's declarations of that year
IncomeOf(u, y) ==
    SumOver(tax_declarations,
            {i \in DOMAIN tax_declarations :
                Decl(i).user_id = u /\ Decl(i).year = y}, "income_gel")

\* The years asked for, as a set
Requested == {last.key[2][n] : n \in DOMAIN last.key[2]}

\* The growth of year y against year p, in hundredths of a percent
GrowthAgainst(u, y, p) ==
    IF IncomeOf(u, p) > 0
    THEN <<RoundDiv((IncomeOf(u, y) - IncomeOf(u, p)) * 10000, IncomeOf(u, p))>>
    ELSE <<>>

\* C17: comparison growth: growth_vs_previous of a year Y is
\* (income(Y) - income(P)) / income(P) x 100 where P is the next older year
\* of the requested set, when income(P) > 0, and null otherwise; the oldest
\* requested year has null growth (for 2024 and 2025 with the later income
\* half as large again, 2025 has growth 50.0 and 2024 has null).
C17_GrowthVsOlder ==
    (last.op = "comparison" /\ last.svc = "ok") =>
        \A n \in DOMAIN last.result.years :
            LET s == last.result.years[n]
                older == {y \in Requested : y < s.year}
            IN  s.growth_vs_previous =
                    IF older = {} THEN <<>>
                    ELSE GrowthAgainst(last.key[1], s.year,
                             CHOOSE p \in older : \A q \in older : q <= p)

---------------------------------------------------------------------------
(* Threshold overview and projections: TaxStatsService.get_tax_overview and *)
(* get_tax_projections (reads of the ledger).  The code computes in floats; *)
(* here a quotient is kept exact, as numerator and denominator, and is      *)
(* rounded where the code rounds.  In the results, whole amounts            *)
(* (total_income_ytd_gel, threshold_remaining_gel) are in GEL and the       *)
(* others in hundredths: of a GEL, of a percent, of the confidence.         *)

ANNUAL_THRESHOLD == 500000
MaxStatsTx == 2                \* ledger records in the statistics runs

Max0(x) == IF x > 0 THEN x ELSE 0          \* max(0, x)

\* (num / den) / ANNUAL_THRESHOLD * 100 compared with p percent (den > 0)
PercentBelow(num, den, p) == num < p * (ANNUAL_THRESHOLD \div 100) * den
PercentAbove(num, den, p) == num > p * (ANNUAL_THRESHOLD \div 100) * den

\* $match user_id and start <= transaction_date < end: ids in collection order
RECURSIVE MatchRange(_, _, _, _, _)
MatchRange(txs, i, u, start, end) ==
    IF i > Len(txs) THEN <<>>
    ELSE (IF /\ txs[i].user_id = u
             /\ DtLeq(start, txs[i].transaction_date)
             /\ DtLess(txs[i].transaction_date, end)
          THEN <<i>> ELSE <<>>) \o MatchRange(txs, i + 1, u, start, end)

\* result[0]["total_income"] if result else 0.0
TotalIncome(txs, u, start, end) ==
    SumAmounts(txs, MatchRange(txs, 1, u, start, end))

\* Bands whose upper limits belong to them
ThresholdStatusInclusive(total_income) ==
    IF ~PercentAbove(total_income, 1, 75) THEN "on_track"
    ELSE IF ~PercentAbove(total_income, 1, 90) THEN "approaching_limit"
    ELSE IF ~PercentAbove(total_income, 1, 100) THEN "near_limit"
    ELSE "exceeded"

\* The band of the overview
ThresholdStatus(total_income) ==
    IF PercentBelow(total_income, 1, 75) THEN "on_track"
    ELSE IF PercentBelow(total_income, 1, 90) THEN "approaching_limit"
    ELSE IF PercentBelow(total_income, 1, 100) THEN "near_limit"
    ELSE "exceeded"

\* The threshold part of the overview (the declaration counts and dates that
\* the overview also carries are read from db.tax_declarations)
get_tax_overview(txs, u, year) ==
    With(TotalIncome(txs, u, <<year, 1, 1, 0>>, <<year + 1, 1, 1, 0>>),
         LAMBDA total_income :
         [year |-> year,
          total_income_ytd_gel |-> total_income,
          tax_liability_ytd_gel |-> total_income * TAX_RATE_PERCENT,
          threshold_remaining_gel |-> Max0(ANNUAL_THRESHOLD - total_income),
          threshold_percentage_used |->
              RoundDiv(total_income, ANNUAL_THRESHOLD \div 10000),
          status |-> ThresholdStatus(total_income)])

\* A projection that does not count the current month
ProjectedOnFullMonths(current_income, months_elapsed) ==
    IF months_elapsed > 1 /\ current_income > 0
    THEN <<current_income * 12, months_elapsed - 1>>
    ELSE <<0, 1>>

\* projected_annual_income = current_income / months_elapsed * 12, or 0.0
ProjectedAnnualIncome(current_income, months_elapsed) ==
    IF months_elapsed > 0 /\ current_income > 0
    THEN <<current_income * 12, months_elapsed>>
    ELSE <<0, 1>>

\* risk_level and confidence of a projected income
RiskOf(projected) ==
    IF PercentBelow(projected[1], projected[2], 75)
    THEN [risk_level |-> "low", confidence |-> 85]
    ELSE IF PercentBelow(projected[1], projected[2], 90)
    THEN [risk_level |-> "medium", confidence |-> 75]
    ELSE IF PercentBelow(projected[1], projected[2], 100)
    THEN [risk_level |-> "high", confidence |-> 70]
    ELSE [risk_level |-> "high", confidence |-> 80]

\* The recommendation, by the words it begins with
RecommendationOf(projected, will_exceed) ==
    IF will_exceed THEN "Projected to exceed threshold"
    ELSE IF PercentAbove(projected[1], projected[2], 85)
    THEN "Approaching threshold"
    ELSE "You're on track"

\* (ANNUAL_THRESHOLD - current_income) / months_remaining, or 0.0
MonthlyAvgNeeded(current_income, current_month) ==
    IF 12 - current_month > 0
    THEN RoundDiv((ANNUAL_THRESHOLD - current_income) * 100, 12 - current_month)
    ELSE 0

\* The projection of an income so far in a month of the year
Projection(current_income, current_month) ==
    With(ProjectedAnnualIncome(current_income, current_month),
         LAMBDA projected :
         With(projected[1] > ANNUAL_THRESHOLD * projected[2],
              LAMBDA will_exceed :
              [based_on_months |-> current_month,
               current_income_gel |-> current_income * 100,
               current_tax_gel |-> current_income * TAX_RATE_PERCENT,
               projected_annual_income_gel |->
                   RoundDiv(projected[1] * 100, projected[2]),
               projected_annual_tax_gel |->
                   RoundDiv(projected[1] * TAX_RATE_PERCENT, projected[2]),
               threshold_status |->
                   [will_exceed_threshold |-> will_exceed,
                    threshold_gel |-> ANNUAL_THRESHOLD,
                    projected_remaining_gel |->
                        Max0(RoundDiv((ANNUAL_THRESHOLD * projected[2]
                                          - projected[1]) * 100, projected[2]))]
                   @@ RiskOf(projected),
               monthly_avg_needed_for_threshold |->
                   MonthlyAvgNeeded(current_income, current_month),
               recommendation |-> RecommendationOf(projected, will_exceed)]))

get_tax_projections(txs, t, u) ==
    Projection(TotalIncome(txs, u, <<t[1], 1, 1, 0>>, t), t[2])

\* GET /tax-stats/overview; NoYear: the year parameter is left out
NoYear == 0

GetTaxOverview(u, year) ==
    /\ last' = [result |-> get_tax_overview(transactions, u,
                              IF year = NoYear THEN Now[1] ELSE year)]
               @@ Called("overview", <<u, year>>, 0, <<>>,
                         Outcome(tax_declarations, 0, "ok", None), 200,
                         tax_declarations)
    /\ UNCHANGED <<tax_declarations, transactions, clock, procs>>

\* GET /tax-stats/projections
GetTaxProjections(u) ==
    /\ last' = [result |-> get_tax_projections(transactions, Now, u)]
               @@ Called("projections", <<u>>, 0, <<>>,
                         Outcome(tax_declarations, 0, "ok", None), 200,
                         tax_declarations)
    /\ UNCHANGED <<tax_declarations, transactions, clock, procs>>

---------------------------------------------------------------------------
(* SpecStats: incomes around the limits of the bands are recorded and the   *)
(* overview and the projections are read                                    *)

\* amount_gel of the records; their sums reach 375,000, 450,000, 500,000 and
\* the whole GEL on either side of each
StatsAmounts == {1, 374999, 449999, 499999, 500000}

StatsCreate ==
    \E a \in StatsAmounts :
        /\ Len(transactions) < MaxStatsTx
        /\ transactions' = Append(transactions,
               [user_id |-> "u1", transaction_date |-> <<2025, 11, 5, 0>>,
                amount_gel |-> a])
        /\ last' = LedgerCalled("tx_create", Len(transactions) + 1, "ok", 201)
        /\ UNCHANGED <<tax_declarations, clock, procs>>

Overview == \E year \in Years \cup {NoYear} : GetTaxOverview("u1", year)

Projections == GetTaxProjections("u1")

NextStats ==
    \/ Tick
    \/ StatsCreate
    \/ Overview
    \/ Projections

SpecStats == Init /\ [][NextStats]_vars

\* Properties of the overview and the projections (SpecStats)

\* The year the last overview was asked for
OverviewYear == IF last.key[2] = NoYear THEN Now[1] ELSE last.key[2]

\* The ledger's income of a user dated in a year
YearToDate(u, year) ==
    SumOver(transactions,
            {i \in DOMAIN transactions :
                /\ transactions[i].user_id = u
                /\ transactions[i].transaction_date[1] = year}, "amount_gel")

C18_AllLimits ==
    /\ last.op = "overview"
    /\ \A x \in {374999, 375000, 449999, 450000, 499999, 500000, 500001} :
           \E a, b \in StatsAmounts \cup {0} : a + b = x
    /\ YearToDate(last.key[1], OverviewYear) = 500001
    /\ last.result.status = "exceeded"
    /\ last.result.threshold_remaining_gel = 0

\* The incomes the ledger of the statistics runs can add up to
StatsIncomes == {a + b : a, b \in StatsAmounts \cup {0}}

\* The band of a projection, as its risk level and confidence tell it
RiskBand(p) == <<p.threshold_status.risk_level, p.threshold_status.confidence>>

\* C19: the recommendation of a projection is chosen by the same band as its
\* risk level: two projections in the same band (<75, [75,90), [90,100),
\* >=100 percent of the threshold) get the same kind of recommendation, and a
\* projection at or above 100% (risk high, confidence 0.80) gets the
\* "projected to exceed" recommendation with will_exceed_threshold true.
C19_RecommendationByBand ==
    last.op = "projections" =>
        /\ \A income \in StatsIncomes :
               \E other \in {Projection(income, Now[2])} :
                   RiskBand(other) = RiskBand(last.result)
                   => other.recommendation = last.result.recommendation
        /\ RiskBand(last.result) = <<"high", 80>>
              => /\ last.result.recommendation = "Projected to exceed threshold"
                 /\ last.result.threshold_status.will_exceed_threshold

\* The ledger's income of a user in the current year, up to now
IncomeSoFar(u) ==
    SumOver(transactions,
            {i \in DOMAIN transactions :
                /\ transactions[i].user_id = u
                /\ transactions[i].transaction_date[1] = Now[1]
                /\ DtLess(transactions[i].transaction_date, Now)}, "amount_gel")

\* C20: projection arithmetic: projected_annual_income is
\* (year-to-date income / current month number) x 12 when the income is above
\* 0, and 0 for a user with no income (nothing is divided by zero);
\* monthly_avg_needed_for_threshold is (500,000 - income) / (12 - current
\* month) when months remain and 0 in month 12.  Both in hundredths of a GEL,
\* rounded as the response rounds them.
C20_ProjectionArithmetic ==
    last.op = "projections" =>
        LET income == IncomeSoFar(last.key[1])
            month == Now[2]
        IN  /\ last.http = 200
            /\ last.result.projected_annual_income_gel =
                   IF income > 0 THEN RoundDiv(income * 12 * 100, month)
                   ELSE 0
            /\ last.result.monthly_avg_needed_for_threshold =
                   IF month < 12
                   THEN RoundDiv((500000 - income) * 100, 12 - month)
                   ELSE 0

\* C20 witness: 374,999 GEL by November projects to 409,089.82 GEL for the
\* year, and 125,001 GEL are needed in the one month that remains
C20_Witness ==
    /\ last.op = "projections"
    /\ IncomeSoFar(last.key[1]) = 374999 /\ Now[2] = 11
    /\ last.result.projected_annual_income_gel = 40908982
    /\ last.result.monthly_avg_needed_for_threshold = 12500100

\* The projection of a user without income, and one made in December
C20_NoIncome ==
    /\ last.op = "projections"
    /\ IncomeSoFar(last.key[1]) = 0
    /\ last.result.projected_annual_income_gel = 0

C20_December ==
    /\ last.op = "projections"
    /\ IncomeSoFar(last.key[1]) > 0 /\ Now[2] = 12
    /\ last.result.monthly_avg_needed_for_threshold = 0

---------------------------------------------------------------------------
(* The insights: TaxStatsService.get_tax_insights                           *)

\* A TaxInsight: its type and severity, the month its title names, the number
\* its title or message carries, and action_required (the texts and
\* created_at are left out)
TaxInsight(type, severity, about, n, action_required) ==
    [type |-> type, severity |-> severity, about |-> about, n |-> n,
     action_required |-> action_required]

\* Bands that leave their upper limits to the next band
DeadlineSeverityExclusive(days_until) ==
    IF days_until < 1 THEN "critical"
    ELSE IF days_until < 3 THEN "high"
    ELSE IF days_until < 7 THEN "medium"
    ELSE None

\* if days_until <= 1 ... elif days_until <= 3 ... elif days_until <= 7 ...
\* else: continue
DeadlineSeverity(days_until) ==
    IF days_until <= 1 THEN "critical"
    ELSE IF days_until <= 3 THEN "high"
    ELSE IF days_until <= 7 THEN "medium"
    ELSE None

\* for decl in pending_declarations: the reminders, in the cursor's order
RECURSIVE DeclarationReminders(_, _, _)
DeclarationReminders(coll, t, cursor) ==
    IF cursor = <<>> THEN <<>>
    ELSE With(TimedeltaDays(coll[Head(cursor)].filing_deadline, t),
              LAMBDA days_until :
              (IF DeadlineSeverity(days_until) = None THEN <<>>
               ELSE <<TaxInsight("declaration_reminder",
                                 DeadlineSeverity(days_until),
                                 <<coll[Head(cursor)].year,
                                   coll[Head(cursor)].month>>,
                                 days_until, TRUE)>>)
              \o DeclarationReminders(coll, t, Tail(cursor)))

\* find({"user_id", "status": "pending", "filing_deadline": {"$gte": now}})
PendingDeclarations(coll, t, u) ==
    {i \in DOMAIN coll : /\ coll[i].user_id = u
                         /\ coll[i].status = PENDING
                         /\ DtLeq(t, coll[i].filing_deadline)}

\* find({"user_id", "status": "pending", "filing_deadline": {"$lt": now}})
OverdueDeclarations(coll, t, u) ==
    {i \in DOMAIN coll : /\ coll[i].user_id = u
                         /\ coll[i].status = PENDING
                         /\ DtLess(coll[i].filing_deadline, t)}

\* An alert for each of the declarations
ComplianceAlertEach(overdue_declarations) ==
    [k \in 1..Cardinality(overdue_declarations) |->
        TaxInsight("compliance_alert", "critical", <<>>, 1, TRUE)]

\* if overdue_declarations: one alert that carries their number
ComplianceAlert(overdue_declarations) ==
    IF overdue_declarations = {} THEN <<>>
    ELSE <<TaxInsight("compliance_alert", "critical", <<>>,
                      Cardinality(overdue_declarations), TRUE)>>

\* The warning on overview.threshold_percentage_used (in hundredths of a
\* percent)
ThresholdWarning(overview) ==
    LET severity ==
            IF overview.threshold_percentage_used >= 9500 THEN "critical"
            ELSE IF overview.threshold_percentage_used >= 8500 THEN "high"
            ELSE IF overview.threshold_percentage_used >= 7500 THEN "medium"
            ELSE None
    IN  IF severity = None THEN <<>>
        ELSE <<TaxInsight("threshold_warning", severity, <<>>,
                          overview.threshold_percentage_used, FALSE)>>

\* The $match of avg_pipeline: the user's declarations of the year for the
\* months before last_month
EarlierMonths(coll, u, year, last_month) ==
    {i \in DOMAIN coll : /\ coll[i].user_id = u
                         /\ coll[i].year = year
                         /\ coll[i].month < last_month}

\* change_percent = ((last_income - avg_income) / avg_income) * 100 against
\* 30 and -30, where avg_income = sum / count: "spike", "drop" or None
ChangeOf(last_income, sum, count) ==
    IF (last_income * count - sum) * 100 > 30 * sum THEN "income_spike"
    ELSE IF (last_income * count - sum) * 100 < (0 - 30) * sum
         THEN "income_drop"
    ELSE None

\* The income spike or drop of last month against the average of the months
\* before it
IncomeChange(coll, t, u) ==
    IF t[2] > 1
    THEN With(FindOne(coll, u, t[1], t[2] - 1), LAMBDA last_month_decl :
         IF last_month_decl # 0 /\ coll[last_month_decl].income_gel > 0
         THEN With(EarlierMonths(coll, u, t[1], t[2] - 1), LAMBDA matched :
              With(SumOver(coll, matched, "income_gel"), LAMBDA sum :
              IF matched # {} /\ sum > 0
              THEN With(ChangeOf(coll[last_month_decl].income_gel, sum,
                                 Cardinality(matched)), LAMBDA change :
                   IF change = None THEN <<>>
                   ELSE <<TaxInsight(change, "info",
                                     <<t[1], t[2] - 1>>, 0, FALSE)>>)
              ELSE <<>>))
         ELSE <<>>)
    ELSE <<>>

\* if overview.threshold_remaining_gel > 100000
OptimizationTip(overview) ==
    IF overview.threshold_remaining_gel > 100000
    THEN <<TaxInsight("optimization_tip", "info", <<>>,
                      overview.threshold_remaining_gel, FALSE)>>
    ELSE <<>>

\* insights.sort(key=lambda x: severity_order[x.severity]): a stable sort
SortBySeverity(insights) ==
    LET of(severity) == SelectSeq(insights, LAMBDA x : x.severity = severity)
    IN  of("critical") \o of("high") \o of("medium") \o of("info")

\* TaxStatsService.get_tax_insights
get_tax_insights(coll, txs, t, u) ==
    With(get_tax_overview(txs, u, t[1]), LAMBDA overview :
    With(SortBySeverity(
             DeclarationReminders(coll, t,
                 SortByDeadline(coll, PendingDeclarations(coll, t, u)))
             \o ComplianceAlert(OverdueDeclarations(coll, t, u))
             \o ThresholdWarning(overview)
             \o IncomeChange(coll, t, u)
             \o OptimizationTip(overview)), LAMBDA insights :
         [insights |-> insights,
          total_insights |-> Len(insights),
          high_priority_count |->
              Len(SelectSeq(insights,
                            LAMBDA x : x.severity \in {"high", "critical"}))]))

\* GET /tax-stats/insights
GetTaxInsights(u) ==
    /\ last' = [result |-> get_tax_insights(tax_declarations, transactions,
                                            Now, u)]
               @@ Called("insights", <<u>>, 0, <<>>,
                         Outcome(tax_declarations, 0, "ok", None), 200,
                         tax_declarations)
    /\ UNCHANGED <<tax_declarations, transactions, clock, procs>>

---------------------------------------------------------------------------
(* SpecInsights: the declarations of 2025 are generated, days pass around   *)
(* the deadlines of November and December, and the insights are read        *)

MaxDays == 6       \* clock ticks (to the next noon of DayInstant)

\* Time passes: from the first instant to the first noon, then noon by noon.
DayTick ==
    /\ clock = 0 \/ (clock > DayClock(0) /\ clock < DayClock(MaxDays))
    /\ clock' = IF clock = 0 THEN DayClock(1) ELSE clock + 1
    /\ last' = NoCall(tax_declarations)
    /\ UNCHANGED <<tax_declarations, transactions, procs>>

InsightsMark == MarkDeclarationSubmitted("u1", 2025, 11, NoDate)

Insights == GetTaxInsights("u1")

NextInsights ==
    \/ DayTick
    \/ LedgerCreate
    \/ AutoGenerate
    \/ InsightsMark
    \/ Insights

SpecInsights == Init /\ [][NextInsights]_vars

\* Properties of the insights (SpecInsights)

\* The insights of a type that the last read returned
InsightsOf(type) == SelectSeq(last.result.insights, LAMBDA x : x.type = type)

\* The reminders that the last read returned about declaration i
RemindersAbout(i) ==
    SelectSeq(InsightsOf("declaration_reminder"),
              LAMBDA x : x.about = <<tax_declarations[i].year,
                                     tax_declarations[i].month>>)

\* The whole days from now to a deadline that has not passed
WholeDaysLeft(i) ==
    CHOOSE n \in 0..400 :
        /\ Seconds(Now) + n * 86400 <= Seconds(tax_declarations[i].filing_deadline)
        /\ Seconds(tax_declarations[i].filing_deadline) < Seconds(Now) + (n + 1) * 86400

\* The severity a number of days calls for
BandOf(days) ==
    CASE days <= 1 -> "critical"
      [] days \in 2..3 -> "high"
      [] days \in 4..7 -> "medium"
      [] OTHER -> None

\* Declaration i is pending with its deadline ahead
PendingAhead(i) ==
    /\ tax_declarations[i].status = PENDING
    /\ DtLess(Now, tax_declarations[i].filing_deadline)

\* C21: the insights carry exactly one reminder for each pending declaration
\* of the user whose deadline is ahead by at most 7 whole days, critical at
\* up to 1 day, high at 2 to 3 days, medium at 4 to 7 days; they carry none
\* for a deadline further ahead and none for a declaration that is not
\* pending.
C21_DeadlineReminders ==
    last.op = "insights" =>
        \A i \in DOMAIN tax_declarations :
            tax_declarations[i].user_id = last.key[1] =>
                IF PendingAhead(i) /\ BandOf(WholeDaysLeft(i)) # None
                THEN /\ Len(RemindersAbout(i)) = 1
                     /\ RemindersAbout(i)[1].severity = BandOf(WholeDaysLeft(i))
                ELSE (tax_declarations[i].filing_deadline = Now)
                     \/ RemindersAbout(i) = <<>>

\* A reminder of the severity, for a pending declaration due in `days` days
RemindedAt(days, severity) ==
    /\ last.op = "insights"
    /\ \E i \in DOMAIN tax_declarations :
           /\ PendingAhead(i)
           /\ WholeDaysLeft(i) = days
           /\ Len(RemindersAbout(i)) = 1
           /\ RemindersAbout(i)[1].severity = severity

C21_Witness == RemindedAt(7, "medium")

C21_ThreeDays == RemindedAt(3, "high")

C21_OneDay == RemindedAt(1, "critical")

\* No reminder for a pending declaration due in 10 days
C21_TenDays ==
    /\ last.op = "insights"
    /\ \E i \in DOMAIN tax_declarations :
           /\ PendingAhead(i)
           /\ WholeDaysLeft(i) = 10
           /\ RemindersAbout(i) = <<>>

\* No reminder for a submitted declaration due in 7 days
C21_NotPending ==
    /\ last.op = "insights"
    /\ \E i \in DOMAIN tax_declarations :
           /\ tax_declarations[i].status = SUBMITTED
           /\ DtLess(Now, tax_declarations[i].filing_deadline)
           /\ WholeDaysLeft(i) = 7
           /\ RemindersAbout(i) = <<>>

\* The user's pending declarations whose deadline has passed
PendingPast(u) ==
    {i \in DOMAIN tax_declarations :
        /\ tax_declarations[i].user_id = u
        /\ tax_declarations[i].status = PENDING
        /\ DtLess(tax_declarations[i].filing_deadline, Now)}

\* C22: the insights carry exactly one compliance alert, of critical
\* severity, when at least one pending declaration of the user has its
\* deadline in the past, however many there are, and none otherwise.
C22_ComplianceAlert ==
    last.op = "insights" =>
        IF PendingPast(last.key[1]) # {}
        THEN /\ Len(InsightsOf("compliance_alert")) = 1
             /\ InsightsOf("compliance_alert")[1].severity = "critical"
        ELSE InsightsOf("compliance_alert") = <<>>

\* One alert for more than one declaration
C22_Witness ==
    /\ last.op = "insights"
    /\ Cardinality(PendingPast(last.key[1])) > 1
    /\ Len(InsightsOf("compliance_alert")) = 1

\* No alert where declarations exist and none is pending past its deadline
C22_NoAlert ==
    /\ last.op = "insights"
    /\ tax_declarations # <<>>
    /\ PendingPast(last.key[1]) = {}
    /\ InsightsOf("compliance_alert") = <<>>

---------------------------------------------------------------------------
(* SpecIncome: incomes of October and November are recorded, the            *)
(* declarations of 2025 are generated, and the insights and the monthly     *)
(* breakdown are read in November and December                              *)

MaxIncomeTx == 2   \* ledger records

\* transaction_date and amount_gel of the records: 100,000 GEL in October
\* (10,000 GEL a month over the ten months before November), and 30% above
\* or below that in November, or 100 GEL further
IncomeRecords ==
    {<<10, 100000>>, <<11, 6900>>, <<11, 7000>>, <<11, 13000>>, <<11, 13100>>}

\* POST /transactions, one record a month
IncomeCreate ==
    \E r \in IncomeRecords :
        /\ Len(transactions) < MaxIncomeTx
        /\ \A i \in DOMAIN transactions :
               transactions[i].transaction_date[2] # r[1]
        /\ transactions' = Append(transactions,
               [user_id |-> "u1", transaction_date |-> <<2025, r[1], 5, 0>>,
                amount_gel |-> r[2]])
        /\ last' = LedgerCalled("tx_create", Len(transactions) + 1, "ok", 201)
        /\ UNCHANGED <<tax_declarations, clock, procs>>

NextIncome ==
    \/ Tick
    \/ IncomeCreate
    \/ AutoGenerate
    \/ Breakdown
    \/ Insights

SpecIncome == Init /\ [][NextIncome]_vars

\* Properties of the income insights (SpecIncome)

\* The income of a month: income_gel of the user's declarations for it
MonthIncome(u, y, m) ==
    SumOver(tax_declarations,
            {i \in DOMAIN tax_declarations :
                /\ tax_declarations[i].user_id = u
                /\ tax_declarations[i].year = y
                /\ tax_declarations[i].month = m}, "income_gel")

\* The income of all the months of the year before month m
RECURSIVE IncomeBefore(_, _, _)
IncomeBefore(u, y, m) ==
    IF m <= 1 THEN 0
    ELSE IncomeBefore(u, y, m - 1) + MonthIncome(u, y, m - 1)

\* What the claim calls for, last month's income being last_income and the
\* months before it, `count` of them, having had `sum` together
ChangeCalledFor(last_income, sum, count) ==
    IF count < 1 \/ sum <= 0 THEN None
    ELSE IF (last_income * count - sum) * 100 > 30 * sum THEN "income_spike"
    ELSE IF (sum - last_income * count) * 100 > 30 * sum THEN "income_drop"
    ELSE None

ChangeExpected ==
    ChangeCalledFor(MonthIncome(last.key[1], Now[1], Now[2] - 1),
                    IncomeBefore(last.key[1], Now[1], Now[2] - 1),
                    Now[2] - 2)

\* C23: from the second month of the year on and with a positive baseline
\* (the average income of all prior months of the year), the insights carry
\* an info income spike exactly when last month's income is more than 30%
\* above the baseline, an info income drop exactly when it is more than 30%
\* below it, a last-month income of zero included, and neither otherwise.
C23_IncomeChange ==
    last.op = "insights" =>
        /\ Len(InsightsOf("income_spike")) =
               IF ChangeExpected = "income_spike" THEN 1 ELSE 0
        /\ Len(InsightsOf("income_drop")) =
               IF ChangeExpected = "income_drop" THEN 1 ELSE 0
        /\ \A k \in DOMAIN last.result.insights :
               last.result.insights[k].type \in {"income_spike", "income_drop"}
                   => last.result.insights[k].severity = "info"

\* The same where last month had an income
C23_WithIncome ==
    (last.op = "insights" /\ MonthIncome(last.key[1], Now[1], Now[2] - 1) > 0)
        => C23_IncomeChange

\* Reads that returned a spike, a drop, and neither at exactly 30% above
C23_Spike ==
    last.op = "insights" /\ Len(InsightsOf("income_spike")) = 1

C23_Drop ==
    last.op = "insights" /\ Len(InsightsOf("income_drop")) = 1

C23_ExactlyThirty ==
    /\ last.op = "insights"
    /\ MonthIncome(last.key[1], Now[1], Now[2] - 1) = 13000
    /\ IncomeBefore(last.key[1], Now[1], Now[2] - 1) = 100000
    /\ InsightsOf("income_spike") = <<>>

---------------------------------------------------------------------------
(* SpecQueue: the declarations of two users go through the filing service   *)
(* and the admin queue is read                                              *)

\* GET /admin/declarations/queue
GetAdminQueue(a) ==
    /\ last' = [result |-> get_admin_queue(tax_declarations)]
               @@ Called("queue", <<>>, 0, <<a>>,
                         Outcome(tax_declarations, 0, "ok", None), 200,
                         tax_declarations)
    /\ UNCHANGED <<tax_declarations, transactions, clock, procs>>

\* The declarations that are taken through the service: December of u1,
\* stored before November of u2 whenever u1's year is generated first
QueueKeys == {<<"u1", 2025, 12>>, <<"u2", 2025, 11>>}

QueueIds ==
    {i \in DOMAIN tax_declarations :
        <<tax_declarations[i].user_id, tax_declarations[i].year,
          tax_declarations[i].month>> \in QueueKeys}

QueueGenerate == \E u \in Users : AutoGenerateDeclarations(u, 2025)

QueueRequest ==
    \E k \in QueueKeys : RequestFilingService(k[1], k[2], k[3], "MOCK_PAY_A")

QueuePay == \E k \in QueueKeys : PayForFilingService(k[1], k[2], k[3])

QueueStart == \E id \in QueueIds : StartFiling(id, "a1")

QueueReject == \E id \in QueueIds : RejectDeclaration(id, "a1", "", None)

AdminQueue == GetAdminQueue("a1")

NextQueue ==
    \/ QueueGenerate
    \/ QueueRequest
    \/ QueuePay
    \/ QueueStart
    \/ QueueReject
    \/ AdminQueue

SpecQueue == Init /\ [][NextQueue]_vars

\* Properties of the admin queue (SpecQueue)

\* The bucket of each status of the queue
BucketOf ==
    [s \in QueueStatuses |->
        CASE s = AWAITING_PAYMENT -> last.result.pending_payment
          [] s = PAYMENT_RECEIVED -> last.result.ready_to_file
          [] s = IN_PROGRESS -> last.result.in_progress
          [] s = REJECTED -> last.result.needs_correction]

\* How many items of a bucket are declaration i
TimesListed(bucket, i) ==
    Cardinality({n \in DOMAIN bucket : bucket[n].id = i})

\* A bucket goes by filing_deadline, ascending
Ascending(bucket) ==
    \A n \in DOMAIN bucket : \A k \in DOMAIN bucket :
        n < k => DtLeq(bucket[n].filing_deadline, bucket[k].filing_deadline)

\* C24: the admin queue lists every declaration, of any user, whose status is
\* awaiting_payment, payment_received, in_progress or rejected exactly once,
\* in the bucket of its status, and no declaration of another status; each
\* bucket is in ascending order of filing_deadline; total_count is the sum
\* of the sizes of the four buckets.
C24_QueuePartition ==
    last.op = "queue" =>
        /\ \A i \in DOMAIN tax_declarations : \A s \in QueueStatuses :
               TimesListed(BucketOf[s], i) =
                   IF tax_declarations[i].status = s THEN 1 ELSE 0
        /\ \A s \in QueueStatuses :
               /\ Ascending(BucketOf[s])
               /\ \A n \in DOMAIN BucketOf[s] :
                      /\ BucketOf[s][n].id \in DOMAIN tax_declarations
                      /\ BucketOf[s][n].status = s
        /\ last.result.total_count =
               Len(last.result.pending_payment) + Len(last.result.ready_to_file)
               + Len(last.result.in_progress) + Len(last.result.needs_correction)

\* Two users' declarations in one bucket, the later stored one due first,
\* beside a declaration that is not in the queue
C24_Witness ==
    /\ last.op = "queue"
    /\ \E s \in QueueStatuses :
           /\ Len(BucketOf[s]) = 2
           /\ BucketOf[s][1].user_id # BucketOf[s][2].user_id
           /\ BucketOf[s][1].id > BucketOf[s][2].id
    /\ \E i \in DOMAIN tax_declarations :
           tax_declarations[i].status \notin QueueStatuses

\* Every bucket of the queue holds a declaration at some read
C24_Rejected ==
    last.op = "queue" /\ last.result.needs_correction # <<>>

C24_TwoBuckets ==
    /\ last.op = "queue"
    /\ last.result.in_progress # <<>>
    /\ last.result.pending_payment # <<>>

---------------------------------------------------------------------------
(* The admin's list of all declarations: TaxStatsService.get_all_declarations *)

NoMonth == 0       \* the year or month parameter is left out

\* query: each filter that is given
MatchesQuery(doc, status, user_id, year, month) ==
    /\ status = None \/ doc.status = status
    /\ user_id = None \/ doc.user_id = user_id
    /\ year = NoYear \/ doc.year = year
    /\ month = NoMonth \/ doc.month = month

\* find(query).sort("filing_deadline", -1): the _ids in the order of the
\* cursor (documents of one deadline in _id order)
RECURSIVE SortByDeadlineDescending(_, _)
SortByDeadlineDescending(coll, ids) ==
    IF ids = {} THEN <<>>
    ELSE LET first == CHOOSE i \in ids : \A j \in ids :
                 \/ DtLess(coll[j].filing_deadline, coll[i].filing_deadline)
                 \/ /\ coll[i].filing_deadline = coll[j].filing_deadline
                    /\ i <= j
         IN  <<first>> \o SortByDeadlineDescending(coll, ids \ {first})

\* .skip(skip).limit(limit)
Page(cursor, limit, skip) ==
    SubSeq(cursor, skip + 1,
           IF skip + limit < Len(cursor) THEN skip + limit ELSE Len(cursor))

\* if declaration.get("payment_status") == "paid":
\*     total_revenue += declaration.get("payment_amount", 0.0)
RECURSIVE Revenue(_, _)
Revenue(coll, cursor) ==
    IF cursor = <<>> THEN 0
    ELSE (IF coll[Head(cursor)].payment_status = "paid"
          THEN Max0(coll[Head(cursor)].payment_amount) ELSE 0)
         + Revenue(coll, Tail(cursor))

get_all_declarations(coll, status, user_id, year, month, limit, skip) ==
    With({i \in DOMAIN coll :
             MatchesQuery(coll[i], status, user_id, year, month)},
         LAMBDA matched :
    With(Page(SortByDeadlineDescending(coll, matched), limit, skip),
         LAMBDA page :
         [declarations |-> [n \in DOMAIN page |-> QueueItem(coll, page[n])],
          total_count |-> Cardinality(matched),
          total_revenue |-> Revenue(coll, page)]))

\* GET /admin/declarations/all
GetAllDeclarations(status, user_id, year, month, limit, skip) ==
    /\ last' = [result |-> get_all_declarations(tax_declarations, status,
                               user_id, year, month, limit, skip)]
               @@ Called("all", <<>>, 0,
                         <<status, user_id, year, month, limit, skip>>,
                         Outcome(tax_declarations, 0, "ok", None), 200,
                         tax_declarations)
    /\ UNCHANGED <<tax_declarations, transactions, clock, procs>>

---------------------------------------------------------------------------
(* SpecRevenue: declarations of two users are paid for and the admin lists  *)
(* all declarations, page by page                                           *)

Limits == {1, 100}         \* limit (100 by default)
Skips == {0, 1}            \* skip (0 by default)

\* status, user_id, year and month of the lists
Filters ==
    {<<None, None, NoYear, NoMonth>>, <<PAYMENT_RECEIVED, None, NoYear, NoMonth>>,
     <<None, "u1", 2025, 12>>}

AllDeclarations ==
    \E f \in Filters, limit \in Limits, skip \in Skips :
        GetAllDeclarations(f[1], f[2], f[3], f[4], limit, skip)

\* The year of u1 is generated; November of u2 exists where the filing
\* service was requested for it first
RevenueGenerate == AutoGenerateDeclarations("u1", 2025)

NextRevenue ==
    \/ RevenueGenerate
    \/ QueueRequest
    \/ QueuePay
    \/ AllDeclarations

SpecRevenue == Init /\ [][NextRevenue]_vars

\* Properties of the list of all declarations (SpecRevenue)

\* The declarations that match the filter of the last list
Filtered ==
    {i \in DOMAIN tax_declarations :
        MatchesQuery(tax_declarations[i], last.args[1], last.args[2],
                     last.args[3], last.args[4])}

\* The payment_amount of the paid declarations among ids
PaidAmounts(ids) ==
    SumOver(tax_declarations,
            {i \in ids : tax_declarations[i].payment_status = "paid"},
            "payment_amount")

\* C25: total_revenue of the list of all declarations is the sum of
\* payment_amount over all the paid declarations that match the status, user,
\* year and month filter, the set that total_count counts, whatever limit
\* and skip are.
C25_RevenueOfFilter ==
    last.op = "all" =>
        /\ last.result.total_count = Cardinality(Filtered)
        /\ last.result.total_revenue = PaidAmounts(Filtered)

\* The same for a page that holds the whole filtered set
C25_WholeSet ==
    (last.op = "all" /\ last.args[6] = 0
        /\ last.args[5] >= Cardinality(Filtered))
        => C25_RevenueOfFilter

\* A list of the whole set with the revenue of two paid declarations
C25_TwoPaid ==
    /\ last.op = "all"
    /\ last.args[5] = 100 /\ last.args[6] = 0
    /\ last.result.total_revenue = 2 * SERVICE_FEE

---------------------------------------------------------------------------
(* The status of the filing service, and SpecLazy: requests of one user on  *)
(* months whose declaration may not have been generated yet                 *)

\* TaxStatsService.get_filing_service_status: a read with find_one
get_filing_service_status(coll, u, y, m) ==
    With(FindOne(coll, u, y, m), LAMBDA i :
         IF i = 0 THEN Outcome(coll, 0, "not_found", None)
         ELSE Outcome(coll, i, "ok", None))

\* GET /filing-service/status/{year}/{month} (the requests of SpecLazy leave
\* admin_notes and correction_notes unset, so FilingServiceStatus validates)
GetFilingServiceStatus(u, y, m) ==
    \E r \in {get_filing_service_status(tax_declarations, u, y, m)} :
        /\ last' = Called("fs_status", <<u, y, m>>, r.id, <<>>, r,
                          IF r.svc = "ok" THEN 200 ELSE 404, tax_declarations)
        /\ UNCHANGED <<tax_declarations, transactions, clock, procs>>

FilingStatus == \E k \in SeqKeys : GetFilingServiceStatus(k[1], k[2], k[3])

NextLazy ==
    \/ AddIncome
    \/ Details
    \/ MarkSubmitted
    \/ RequestFiling
    \/ Pay
    \/ FilingStatus

SpecLazy == Init /\ [][NextLazy]_vars

\* Properties of the requests on months without a record (SpecLazy)

\* The last request was made on a month that had no record
NoRecordYet ==
    /\ last.op \in {"mark", "pay", "fs_status"}
    /\ FindOne(last.before, last.key[1], last.key[2], last.key[3]) = 0

\* The store the request would have found had the declaration been generated
\* first
GeneratedFirst ==
    GetOrCreate(last.before, transactions, Now, last.key[1], last.key[2],
                last.key[3]).coll

\* The outcome of the request on a store
OutcomeOn(coll) ==
    CASE last.op = "mark" ->
             mark_declaration_submitted(coll, Now, last.key[1], last.key[2],
                                        last.key[3], NoDate).svc
      [] last.op = "pay" ->
             process_mock_payment(coll, Now, last.key[1], last.key[2],
                                  last.key[3]).svc
      [] last.op = "fs_status" ->
             get_filing_service_status(coll, last.key[1], last.key[2],
                                       last.key[3]).svc

\* C27: marking as self-submitted, confirming payment and reading the status
\* of the filing service on a month whose declaration has not been generated
\* behave as if it had been generated first: the outcome is the one on the
\* generated declaration, the declaration exists afterwards, and no
\* not-found is reported.
C27_LazyGeneration ==
    NoRecordYet =>
        /\ last.svc = OutcomeOn(GeneratedFirst)
        /\ last.http # 404
        /\ last.svc \notin {"not_found", "false"}
        /\ FindOne(tax_declarations, last.key[1], last.key[2], last.key[3]) # 0

\* Each of the three requests reports not-found on a month without a record
C27_MarkNotFound ==
    NoRecordYet /\ last.op = "mark" /\ last.http = 404

C27_PayNotFound ==
    NoRecordYet /\ last.op = "pay" /\ last.svc = "not_found" /\ last.http = 400

C27_StatusNotFound ==
    NoRecordYet /\ last.op = "fs_status" /\ last.http = 404

\* Properties of the monthly breakdown (SpecIncome)

\* The entries of the last breakdown that have an income
WithIncome == SelectSeq(last.result.months, LAMBDA x : x.income_gel > 0)

\* C26: the monthly breakdown returns exactly 12 entries, for the months 1 to
\* 12 of the year in order, and a declaration exists for each of them
\* afterwards; avg_monthly_income is the year's total income divided by the
\* number of months with a non-zero income, 0 when there is none, never by
\* 12; days_until_deadline is reported only for pending entries whose
\* deadline is ahead.
C26_MonthlyBreakdown ==
    last.op = "breakdown" =>
        /\ Len(last.result.months) = 12
        /\ \A m \in 1..12 :
               /\ last.result.months[m].month = <<last.key[2], m>>
               /\ FindOne(tax_declarations, last.key[1], last.key[2], m) # 0
               /\ last.result.months[m].days_until_deadline # <<>>
                      => /\ last.result.months[m].declaration_status = PENDING
                         /\ DtLess(Now, last.result.months[m].filing_deadline)
        /\ last.result.total_income_gel = Total(last.result.months, "income_gel")
        /\ IF WithIncome = <<>>
           THEN last.result.avg_monthly_income_gel = 0
           ELSE /\ 2 * last.result.avg_monthly_income_gel * Len(WithIncome)
                       <= 200 * last.result.total_income_gel + Len(WithIncome)
                /\ 2 * last.result.avg_monthly_income_gel * Len(WithIncome)
                       > 200 * last.result.total_income_gel - Len(WithIncome)

\* Two months with an income: the average is half the total; a pending entry
\* with its days and a pending entry past its deadline without
C26_Witness ==
    /\ last.op = "breakdown"
    /\ Len(WithIncome) = 2
    /\ last.result.avg_monthly_income_gel * 2 = last.result.total_income_gel * 100
    /\ \E m \in 1..12 : last.result.months[m].days_until_deadline # <<>>
    /\ \E m \in 1..12 :
           /\ last.result.months[m].declaration_status = PENDING
           /\ last.result.months[m].days_until_deadline = <<>>

\* A year without income
C26_NoIncome ==
    /\ last.op = "breakdown"
    /\ WithIncome = <<>>
    /\ last.result.avg_monthly_income_gel = 0

---------------------------------------------------------------------------
(* The background sweeps: ReminderScheduler.check_tax_declaration_deadlines *)
(* and check_threshold_warnings (app/services/scheduler.py)                 *)

\* db.users.find({"telegram_chat_id": {"$ne": None}, ...}): the users with
\* Telegram connected, in the order of the cursor
TelegramUsers == <<"u1", "u2">>

\* The declarations of a user that the deadline sweep sends a reminder for:
\* pending or overdue, the deadline not passed and 7, 3 or 1 day(s) ahead
ReminderDue(coll, t, u) ==
    {i \in DOMAIN coll : /\ coll[i].user_id = u
                         /\ coll[i].status \in {PENDING, OVERDUE}
                         /\ DtLeq(t, coll[i].filing_deadline)
                         /\ TimedeltaDays(coll[i].filing_deadline, t) \in {7, 3, 1}}

\* should_send of the threshold sweep
WarningDue(txs, t, u) ==
    get_tax_overview(txs, u, t[1]).threshold_percentage_used >= 7500

\* Whether a sweep calls send_reminder for a user
ShouldSend(job, coll, txs, t, u) ==
    IF job = "deadlines" THEN ReminderDue(coll, t, u) # {}
    ELSE WarningDue(txs, t, u)

\* The scheduler fires a job: users = await self.db.users.find(...).  The
\* sweep is then at its loop, with the job, the users the loop has not
\* reached, the users send_reminder was called for, the users whose
\* processing raised, and whether the except clause logged an error
StartSweep(job) ==
    /\ procs[1].pc = "idle"
    /\ procs' = [procs EXCEPT ![1] =
           [pc |-> "loop", job |-> job, users |-> TelegramUsers,
            attempted |-> {}, raised |-> {}, logged |-> FALSE]]
    /\ last' = NoCall(tax_declarations)
    /\ UNCHANGED <<tax_declarations, transactions, clock>>

\* One turn of `for user in users`, or the end of the loop.  The reads and
\* send_reminder of the turn either go through or raise; what is raised
\* reaches the except clause around the whole loop, which logs it, and the
\* job returns.
SweepUser(raises) ==
    /\ procs[1].pc = "loop"
    /\ procs' = [procs EXCEPT ![1] =
           IF procs[1].users = <<>> THEN [@ EXCEPT !.pc = "returned"]
           ELSE IF raises
           THEN [@ EXCEPT !.pc = "returned", !.logged = TRUE,
                          !.raised = @ \cup {Head(procs[1].users)}]
           ELSE [@ EXCEPT !.users = Tail(@),
                          !.attempted =
                              IF ShouldSend(procs[1].job, tax_declarations,
                                            transactions, Now,
                                            Head(procs[1].users))
                              THEN @ \cup {Head(procs[1].users)} ELSE @]]
    /\ last' = NoCall(tax_declarations)
    /\ UNCHANGED <<tax_declarations, transactions, clock>>

---------------------------------------------------------------------------
(* SpecSweep: the declarations of two users are generated, incomes near the *)
(* threshold are recorded, days pass, and then one of the sweeps runs       *)

MaxSweepTx == 2    \* ledger records

\* An income of 80% of the threshold for a user
SweepCreate ==
    \E u \in Users :
        /\ procs[1].pc = "idle"
        /\ Len(transactions) < MaxSweepTx
        /\ \A i \in DOMAIN transactions : transactions[i].user_id # u
        /\ transactions' = Append(transactions,
               [user_id |-> u, transaction_date |-> <<2025, 11, 5, 0>>,
                amount_gel |-> 400000])
        /\ last' = LedgerCalled("tx_create", Len(transactions) + 1, "ok", 201)
        /\ UNCHANGED <<tax_declarations, clock, procs>>

\* The years of both users are generated on 20 November
SweepGenerate == procs[1].pc = "idle" /\ clock = 0 /\ QueueGenerate

SweepTick == procs[1].pc = "idle" /\ DayTick

Sweep == \E job \in {"deadlines", "thresholds"} : StartSweep(job)

Turn == \E raises \in BOOLEAN : SweepUser(raises)

NextSweep ==
    \/ SweepTick
    \/ SweepCreate
    \/ SweepGenerate
    \/ Sweep
    \/ Turn

SpecSweep == Init /\ [][NextSweep]_vars

\* Properties of the sweeps (SpecSweep)

\* A sweep has returned (nothing has changed since it was fired)
SweepReturned == procs[1].pc = "returned"

\* The users a sweep that has returned should have called send_reminder for
DueUsers ==
    {u \in Users : ShouldSend(procs[1].job, tax_declarations, transactions,
                              Now, u)}

\* C28: in the deadline sweep and the threshold sweep an error raised while
\* one user is processed is logged and the sweep goes on with the remaining
\* users: when the sweep has returned, a notification has been attempted for
\* every user that was due one and whose own processing did not raise.
C28_SweepContinues ==
    SweepReturned =>
        /\ procs[1].raised # {} => procs[1].logged
        /\ \A u \in DueUsers \ procs[1].raised : u \in procs[1].attempted

\* A sweep without an error attempts the notifications of both users
C28_BothAttempted ==
    /\ SweepReturned
    /\ procs[1].raised = {}
    /\ procs[1].attempted = {"u1", "u2"}

\* The error of the first user ends each of the two sweeps before the second
\* user, who was due a notification
C28_DeadlinesAborted ==
    /\ SweepReturned /\ procs[1].job = "deadlines"
    /\ procs[1].raised = {"u1"} /\ "u2" \in DueUsers \ procs[1].attempted

C28_ThresholdsAborted ==
    /\ SweepReturned /\ procs[1].job = "thresholds"
    /\ procs[1].raised = {"u1"} /\ "u2" \in DueUsers \ procs[1].attempted

---------------------------------------------------------------------------
(* SpecRace: two requests at a time on the declaration of November 2025.    *)
(* process_mock_payment and the admin methods await find_one, check the     *)
(* status they read, and then await update_one on the _id; another request  *)
(* can be handled between the two awaits.                                   *)

RaceKey == <<"u1", 2025, 11>>

SplitOps == {"pay", "start", "complete", "reject"}

\* The check of each method on the document it read
GuardOf(op, doc) ==
    CASE op = "pay" -> CanPay(doc)
      [] op = "start" -> CanStart(doc)
      [] op = "complete" -> CanComplete(doc)
      [] op = "reject" -> CanReject(doc)

\* The $set of each method (the admin a1, no notes, no confirmation number)
FieldsOf(op, t) ==
    CASE op = "pay" -> PaymentFields(t)
      [] op = "start" -> StartFields(t, "a1")
      [] op = "complete" -> CompleteFields(t, None, None)
      [] op = "reject" -> RejectFields(t, "", None)

\* What the endpoint answers after the update
StatusAfter(op) ==
    IF op = "pay" /\ ~PaymentResponseValid(PaymentResultKeys) THEN 400
    ELSE 200

\* A request arrives: await find_one(...), then the checks on the document
\* read.  A request that fails a check is answered at once; one that passes
\* goes on to its update.
RaceFind(p, op) ==
    /\ procs[p].pc = "idle"
    /\ \E i \in {FindOne(tax_declarations, RaceKey[1], RaceKey[2], RaceKey[3])} :
           IF i # 0 /\ GuardOf(op, tax_declarations[i])
           THEN /\ procs' = [procs EXCEPT ![p] =
                       [pc |-> "update", op |-> op, id |-> i]]
                /\ UNCHANGED last
           ELSE /\ last' = Called(op, RaceKey, i, <<>>,
                                  Outcome(tax_declarations, i,
                                          IF i = 0 THEN "not_found"
                                          ELSE "invalid_status",
                                          StatusOf(tax_declarations, i)),
                                  400, tax_declarations)
                /\ UNCHANGED procs
    /\ UNCHANGED <<tax_declarations, transactions, clock>>

\* await update_one({"_id": ...}, {"$set": ...}): the filter holds no
\* condition on the status
RaceUpdate(p) ==
    /\ procs[p].pc = "update"
    /\ tax_declarations' = UpdateOne(tax_declarations, procs[p].id,
                                     FieldsOf(procs[p].op, Now))
    /\ last' = Called(procs[p].op, RaceKey, procs[p].id, <<>>,
                      Outcome(tax_declarations', procs[p].id, "ok", None),
                      StatusAfter(procs[p].op), tax_declarations)
    /\ procs' = [procs EXCEPT ![p] = Idle]
    /\ UNCHANGED <<transactions, clock>>

\* Time passes while requests are handled.
RaceTick ==
    /\ clock < MaxClock
    /\ clock' = clock + 1
    /\ UNCHANGED <<tax_declarations, transactions, last, procs>>

RaceRequest ==
    RequestFilingService(RaceKey[1], RaceKey[2], RaceKey[3], "MOCK_PAY_A")

RaceMark ==
    MarkDeclarationSubmitted(RaceKey[1], RaceKey[2], RaceKey[3], NoDate)

ReadAndCheck == \E p \in 1..NumProcs, op \in SplitOps : RaceFind(p, op)

WriteBack == \E p \in 1..NumProcs : RaceUpdate(p)

NextRace ==
    \/ RaceTick
    \/ RaceRequest
    \/ RaceMark
    \/ ReadAndCheck
    \/ WriteBack

SpecRace == Init /\ [][NextRace]_vars

\* Properties of the concurrent requests (SpecRace): last is the last
\* request answered, last.before the store its write found

\* What the guard of each lifecycle action admits
Admits(op, doc) ==
    IF op = "mark" THEN doc.status \notin Terminal
    ELSE IF op = "request" THEN CanRequestFiling(doc)
    ELSE GuardOf(op, doc)

\* The last request wrote to declaration i
Wrote(i) ==
    /\ last.op \in LifecycleOps
    /\ i \in DOMAIN last.before
    /\ Decl(i) # Before(i)

\* C29: under any interleaving of two concurrent lifecycle actions on a
\* declaration, a write takes effect only if the stored status at the time
\* of the write satisfies the guard of the action, every change of the
\* stored status is an allowed edge, and a terminal status is never
\* overwritten.
C29_ConditionalUpdates ==
    \A i \in DOMAIN last.before :
        Wrote(i) =>
            /\ Admits(last.op, Before(i))
            /\ Before(i).status \notin Terminal
            /\ Decl(i).status # Before(i).status
                   => <<Before(i).status, Decl(i).status>> \in AllowedEdges

\* The last write overwrote status `from` with status `to`
Overwrote(from, to) ==
    \E i \in DOMAIN last.before :
        Wrote(i) /\ Before(i).status = from /\ Decl(i).status = to

\* Mark-self-submitted and admin start: submitted followed by in_progress
C29_SubmittedThenInProgress == Overwrote(SUBMITTED, IN_PROGRESS)

\* Admin complete and admin reject: filed_by_admin followed by rejected
C29_FiledThenRejected == Overwrote(FILED_BY_ADMIN, REJECTED)

\* C30: payment is confirmed at most once per declaration: a confirmation of
\* payment that succeeds finds the declaration in awaiting_payment and
\* without a payment_date, also when two confirmations run concurrently.
C30_PaidOnce ==
    (last.op = "pay" /\ last.svc = "ok") =>
        /\ Before(last.id).status = AWAITING_PAYMENT
        /\ Before(last.id).payment_date = NoDate

\* Two confirmations succeeded and the second one moved payment_date
C30_PaidTwice ==
    /\ last.op = "pay" /\ last.svc = "ok"
    /\ Before(last.id).payment_status = "paid"
    /\ Before(last.id).payment_date # Decl(last.id).payment_date

---------------------------------------------------------------------------
(* SpecStale: a generator read of the declaration of November 2025, taken   *)
(* await by await, while the owner marks the declaration submitted or       *)
(* requests the filing service.  The generator checks the status it read    *)
(* and then awaits update_one on the _id alone.                             *)

StaleCall ==
    \E p \in DOMAIN procs : GenCall(p, RaceKey[1], RaceKey[2], RaceKey[3])

NextStale ==
    \/ GenTick
    \/ StaleCall
    \/ Find
    \/ Update
    \/ Agg
    \/ Insert
    \/ Return
    \/ RaceRequest
    \/ RaceMark

SpecStale == Init /\ [][NextStale]_vars

\* A step writes overdue over the stored status `from`
BecomesOverdue(from) ==
    \E i \in DOMAIN tax_declarations :
        /\ tax_declarations[i].status = from
        /\ tax_declarations'[i].status = OVERDUE

\* C31: the generator's overdue reclassification only ever replaces the
\* status pending: under any interleaving of a generator read with a
\* concurrent request for admin filing or mark as self-submitted, no step
\* overwrites a stored status other than pending with overdue.
C31_OnlyPendingBecomesOverdue ==
    [][\A from \in DeclarationStatus \ {PENDING, OVERDUE} :
           ~BecomesOverdue(from)]_vars

\* A generator coroutine read a pending declaration and is about to write
\* overdue, and the stored status has become `status` meanwhile
WriteAwaits(status) ==
    \E p \in DOMAIN procs :
        /\ procs[p].pc = "update"
        /\ tax_declarations[procs[p].existing].status = status

C31_SubmittedMeanwhile == WriteAwaits(SUBMITTED)

C31_AwaitingPaymentMeanwhile == WriteAwaits(AWAITING_PAYMENT)

\* Handled one request after the other, only pending becomes overdue
C31_Sequential ==
    \A i \in DOMAIN last.before :
        (Decl(i).status = OVERDUE /\ Before(i).status # OVERDUE)
            => Before(i).status = PENDING

---------------------------------------------------------------------------
(* Invariants of the stored declarations in the sequential runs (Spec)      *)

\* The statuses a declaration takes once its payment is confirmed
PaidFor == {PAYMENT_RECEIVED, IN_PROGRESS, FILED_BY_ADMIN, REJECTED}

\* C32: payment/status consistency: a declaration whose status is
\* payment_received, in_progress, filed_by_admin or rejected has
\* payment_status = paid and a payment_date, and a declaration with
\* payment_status = paid has one of these statuses or submitted (it is never
\* pending, overdue or awaiting_payment).
C32_PaymentConsistency ==
    \A i \in DOMAIN tax_declarations :
        /\ Decl(i).status \in PaidFor
               => Decl(i).payment_status = "paid"
                  /\ Decl(i).payment_date # NoDate
        /\ Decl(i).payment_status = "paid"
               => Decl(i).status \in PaidFor \cup {SUBMITTED}

\* A paid declaration was rejected, and the clock has moved since the payment
C32_Witness ==
    \E i \in DOMAIN tax_declarations :
        /\ Decl(i).status = REJECTED
        /\ Decl(i).payment_status = "paid"
        /\ DtLess(Decl(i).payment_date, Now)

\* A paid declaration was marked as submitted by its owner
C32_PaidSubmitted ==
    \E i \in DOMAIN tax_declarations :
        Decl(i).status = SUBMITTED /\ Decl(i).payment_status = "paid"

---------------------------------------------------------------------------
(* The compliance alert and the declarations stored as overdue              *)
(* (SpecInsights)                                                           *)

\* The declarations of user u that are stored with status overdue
StoredOverdue(u) ==
    {i \in DOMAIN tax_declarations :
        Decl(i).user_id = u /\ Decl(i).status = OVERDUE}

\* C33: an unfiled declaration past its deadline keeps raising the
\* compliance alert: whenever the user has a declaration with status
\* overdue, the insights read includes the critical compliance alert, also
\* after a generator read has reclassified a pending declaration to overdue.
C33_OverdueAlerted ==
    (last.op = "insights" /\ StoredOverdue(last.key[1]) # {}) =>
        \E k \in DOMAIN last.result.insights :
            /\ last.result.insights[k].type = "compliance_alert"
            /\ last.result.insights[k].severity = "critical"

\* The insights are read with no compliance alert although a declaration
\* without income, which only a generator read of the pending declaration
\* makes overdue, is stored as overdue
C33_ReclassifiedUnalerted ==
    /\ last.op = "insights"
    /\ InsightsOf("compliance_alert") = <<>>
    /\ \E i \in StoredOverdue(last.key[1]) : Decl(i).income_gel = 0

\* The alert is raised while a declaration past its deadline is still pending
C33_PendingAlerted ==
    /\ last.op = "insights"
    /\ InsightsOf("compliance_alert") # <<>>
    /\ PendingPast(last.key[1]) # {}

---------------------------------------------------------------------------
(* The status over two successive generator calls (SpecLedger)              *)

\* The last request called the generator for the key of declaration i and
\* got declaration i: it read it or created it
ReturnedBy(i) ==
    /\ last.op \in {"details", "breakdown", "generate"}
    /\ i \in Created \/ ReadBy(i)

\* The status a generator call for the key of declaration i returns now
StatusAgain(i) == CalledAgain(i).coll[i].status

\* C34: the generator is idempotent in status: a generator call for the same
\* (user, year, month) at the same clock value, with no operation in
\* between, returns the status the call before returned; the status chosen
\* at creation is not changed by an immediately following read.
C34_SameStatusAgain ==
    \A i \in DOMAIN tax_declarations :
        ReturnedBy(i) => StatusAgain(i) = Decl(i).status

\* A declaration without income was created as pending after its deadline,
\* and the next read returns it as overdue
C34_CreatedPendingLate ==
    \E i \in Created :
        /\ ReturnedBy(i)
        /\ Decl(i).income_gel = 0
        /\ Decl(i).status = PENDING
        /\ DtLess(Decl(i).filing_deadline, Now)
        /\ StatusAgain(i) = OVERDUE

\* A read of a declaration that existed is followed by the same status
C34_ReadThenRead ==
    \A i \in DOMAIN last.before :
        (ReturnedBy(i) /\ ReadBy(i)) => StatusAgain(i) = Decl(i).status

\* A pending declaration past its deadline was read and became overdue
C34_Reclassified ==
    \E i \in DOMAIN last.before :
        /\ ReturnedBy(i) /\ ReadBy(i)
        /\ Before(i).status = PENDING /\ Decl(i).status = OVERDUE

---------------------------------------------------------------------------
(* The submission date, the figures and the frame of the lifecycle actions  *)
(* in the sequential runs (Spec)                                            *)

\* C35: a declaration's submitted_date is set if and only if its status is
\* submitted or filed_by_admin.
C35_SubmittedDate ==
    \A i \in DOMAIN tax_declarations :
        Decl(i).submitted_date # NoDate <=> Decl(i).status \in Terminal

\* An admin completed the filing of a declaration that had no submitted_date:
\* it is filed_by_admin and carries the date of the completion
C35_Witness ==
    /\ last.op = "complete" /\ last.svc = "ok"
    /\ Before(last.id).submitted_date = NoDate
    /\ Decl(last.id).status = FILED_BY_ADMIN
    /\ Decl(last.id).submitted_date = Now

\* The owner marked a declaration submitted with a date of his own
C35_MarkedWithDate ==
    /\ last.op = "mark" /\ last.svc = "ok"
    /\ last.args[1] # NoDate
    /\ Decl(last.id).status = SUBMITTED
    /\ Decl(last.id).submitted_date = last.args[1]

---------------------------------------------------------------------------
(* SpecFigures: up to two incomes of November 2025 are recorded, edited and *)
(* deleted while the declaration of the month is created, read and taken    *)
(* through its lifecycle                                                    *)

MaxFigureTx == 2     \* ledger records in these runs

\* POST /transactions: 22,000 GEL dated 5 November 2025
FiguresCreate ==
    /\ Len(transactions) < MaxFigureTx
    /\ transactions' = Append(transactions,
           [user_id |-> "u1", transaction_date |-> <<2025, 11, 5, 0>>,
            amount_gel |-> 22000])
    /\ last' = LedgerCalled("tx_create", Len(transactions) + 1, "ok", 201)
    /\ UNCHANGED <<tax_declarations, clock, procs>>

FiguresDetails == GetDeclarationDetails(RaceKey[1], RaceKey[2], RaceKey[3])

FiguresPay == PayForFilingService(RaceKey[1], RaceKey[2], RaceKey[3])

FiguresStart == StartFiling(1, "a1")

FiguresComplete == CompleteFiling(1, "a1", "RS-1", None)

FiguresReject == RejectDeclaration(1, "a1", "fix income", None)

NextFigures ==
    \/ Tick
    \/ FiguresCreate
    \/ LedgerUpdate
    \/ LedgerDelete
    \/ FiguresDetails
    \/ RaceMark
    \/ RaceRequest
    \/ FiguresPay
    \/ FiguresStart
    \/ FiguresComplete
    \/ FiguresReject

SpecFigures == Init /\ [][NextFigures]_vars

\* C36: each stored declaration satisfies tax_due = income_total x TAX_RATE
\* (1% of the income) and transaction_count = the number of entries of
\* transaction_ids, in every reachable state: no operation breaks this
\* after creation.
C36_Figures ==
    \A i \in DOMAIN tax_declarations :
        /\ Decl(i).tax_due_gel * 100 = Decl(i).income_gel * TAX_RATE_PERCENT
        /\ Decl(i).transaction_count = Len(Decl(i).transaction_ids)

\* A declaration made from two ledger records (44,000 GEL, tax 440 GEL) was
\* filed by an admin after its records had been edited or deleted
C36_Witness ==
    \E i \in DOMAIN tax_declarations :
        /\ last.op = "complete" /\ last.svc = "ok" /\ last.id = i
        /\ Decl(i).transaction_ids = <<1, 2>>
        /\ Decl(i).income_gel = 44000 /\ Decl(i).tax_due_gel = 440
        /\ LedgerNow(i).total_income # Decl(i).income_gel

---------------------------------------------------------------------------
(* SpecFrame: the declarations of both users for 2025 are generated, and    *)
(* the declaration of u1 for November is taken through its lifecycle        *)

\* The _id of the declaration of u1 for November 2025
FrameIds == {i \in DOMAIN tax_declarations : KeyOf(Decl(i)) = RaceKey}

FrameStart == \E id \in FrameIds : StartFiling(id, "a1")

FrameComplete == \E id \in FrameIds : CompleteFiling(id, "a1", "RS-1", None)

FrameReject == \E id \in FrameIds : RejectDeclaration(id, "a1", "", None)

NextFrame ==
    \/ FiguresCreate
    \/ QueueGenerate
    \/ RaceMark
    \/ RaceRequest
    \/ FiguresPay
    \/ FrameStart
    \/ FrameComplete
    \/ FrameReject

SpecFrame == Init /\ [][NextFrame]_vars

\* The fields that identify a declaration and hold its figures
Figures(doc) ==
    [user_id |-> doc.user_id, year |-> doc.year, month |-> doc.month,
     income_gel |-> doc.income_gel, tax_due_gel |-> doc.tax_due_gel,
     transaction_count |-> doc.transaction_count,
     transaction_ids |-> doc.transaction_ids,
     filing_deadline |-> doc.filing_deadline]

\* The declaration the last lifecycle action targets: the one of its key, or
\* the one of its declaration_id
Targets(i) ==
    IF last.op \in {"mark", "request", "pay"} THEN KeyOf(Decl(i)) = last.key
    ELSE i = last.id

\* C37: frame of the lifecycle actions: none of mark self-submitted, request
\* admin filing, confirm payment, admin start, admin complete and admin
\* reject changes a stored declaration's user_id, year, month, income, tax
\* due, transaction count, transaction ids or filing deadline, and none
\* creates or changes any other declaration than the one it targets.
C37_Frame ==
    last.op \in LifecycleOps =>
        /\ \A i \in DOMAIN last.before :
               /\ Figures(Decl(i)) = Figures(Before(i))
               /\ ~Targets(i) => Decl(i) = Before(i)
        /\ \A i \in Created : Targets(i)

\* An admin completed the filing of the declaration of u1 for November,
\* which holds an income, while the declarations of both users are stored:
\* the declaration changed, none of the others did
C37_Witness ==
    /\ last.op = "complete" /\ last.svc = "ok"
    /\ Decl(last.id).income_gel > 0
    /\ Decl(last.id) # Before(last.id)
    /\ \E i, j \in DOMAIN last.before :
           /\ i # last.id /\ Decl(i).user_id = "u1"
           /\ Decl(j).user_id = "u2"

\* A request for the filing service created the declaration it targets
C37_RequestCreated ==
    /\ last.op = "request" /\ last.svc = "ok"
    /\ Created = {last.id}

---------------------------------------------------------------------------
(* SpecIsolation: two users, one of them with an income in November 2025,   *)
(* read and generate their declarations of 2025 and take their             *)
(* declarations of November through mark, request and payment               *)

\* POST /transactions: u2 records 30,000 GEL dated 5 November 2025, before
\* any declaration exists; u1 has no income
IsolationCreate ==
    /\ tax_declarations = <<>>
    /\ transactions = <<>>
    /\ transactions' = Append(transactions,
           [user_id |-> "u2", transaction_date |-> <<2025, 11, 5, 0>>,
            amount_gel |-> 30000])
    /\ last' = LedgerCalled("tx_create", 1, "ok", 201)
    /\ UNCHANGED <<tax_declarations, clock, procs>>

IsolationDetails == \E u \in Users : GetDeclarationDetails(u, 2025, 11)

IsolationBreakdown == \E u \in Users : GetMonthlyTaxBreakdown(u, 2025)

IsolationMark ==
    \E u \in Users : MarkDeclarationSubmitted(u, 2025, 11, NoDate)

IsolationRequest ==
    \E u \in Users : RequestFilingService(u, 2025, 11, "MOCK_PAY_A")

IsolationPay == \E u \in Users : PayForFilingService(u, 2025, 11)

NextIsolation ==
    \/ IsolationCreate
    \/ QueueGenerate
    \/ IsolationDetails
    \/ IsolationBreakdown
    \/ IsolationMark
    \/ IsolationRequest
    \/ IsolationPay

SpecIsolation == Init /\ [][NextIsolation]_vars

\* The operations a user issues on his declarations
UserOps == {"details", "breakdown", "generate", "mark", "request", "pay"}

\* The user who issued the last request
Caller == last.key[1]

\* The declaration of the caller for a month of the year of the request
OwnDeclaration(m) ==
    Decl(FindOne(tax_declarations, Caller, last.key[2], m))

\* C38: user isolation: an operation issued by a user (declaration detail,
\* monthly breakdown, bulk auto-generate, mark self-submitted, request admin
\* filing, confirm payment) never creates, modifies or reads into its result
\* a declaration whose user_id is a different user.
C38_UserIsolation ==
    last.op \in UserOps =>
        /\ \A i \in DOMAIN last.before :
               Before(i).user_id # Caller => Decl(i) = Before(i)
        /\ \A i \in Created : Decl(i).user_id = Caller
        /\ (last.op \in {"details", "mark", "request", "pay"} /\ last.id # 0)
               => Decl(last.id).user_id = Caller
        /\ last.op = "breakdown"
               => \A m \in DOMAIN last.result.months :
                      last.result.months[m] =
                          MonthlyTaxSummary(OwnDeclaration(m), Now)

\* Another user's declaration of November is stored, awaiting payment, with
\* an income that is not the caller's
OthersStored ==
    \E i \in DOMAIN last.before :
        /\ Before(i).user_id # Caller
        /\ Before(i).month = 11
        /\ Before(i).status = AWAITING_PAYMENT
        /\ Before(i).income_gel # OwnDeclaration(11).income_gel

\* A user read his monthly breakdown for the first time, which created his
\* declarations, while another user's declarations were stored: the entry
\* of November carries his own income
C38_Witness ==
    /\ last.op = "breakdown"
    /\ OthersStored
    /\ Created # {}
    /\ last.result.months[11].income_gel = OwnDeclaration(11).income_gel

\* A user paid for his declaration of November while another user's
\* declaration of November awaited payment
C38_PaidBesideOther ==
    /\ last.op = "pay" /\ last.svc = "ok"
    /\ OthersStored

---------------------------------------------------------------------------
(* SpecAdmin: the admin endpoints behind get_current_user and               *)
(* @require_admin.  db.users holds the user u1 and the admin a1 (is_admin   *)
(* is set on the document by scripts/create_admin.py).                      *)

\* The fields of the schema UserResponse
UserResponseFields ==
    {"email", "id", "created_at", "is_verified", "subscription_plan",
     "subscription_status", "telegram_chat_id", "telegram_username",
     "telegram_connected_at", "telegram_notifications_enabled",
     "telegram_reminder_time"}

\* db.users, by the user the bearer token names
UserAccounts ==
    [u \in {"u1", "a1"} |->
        [id |-> u, email |-> u, created_at |-> Instant(0),
         is_admin |-> (u = "a1")]]

\* The bearer tokens of a request: none or an invalid one (""), u1's, a1's
Tokens == {""} \cup DOMAIN UserAccounts

\* UserResponse(**user): the schema keeps the fields it declares; the other
\* keys of the document are ignored
UserResponse(user) ==
    [f \in DOMAIN user \cap UserResponseFields |-> user[f]]

\* Depends(get_current_user): 401 without a valid token, else the user
get_current_user(token) ==
    IF token \notin DOMAIN UserAccounts
    THEN [http |-> 401, user |-> [id |-> None]]
    ELSE [http |-> 0, user |-> UserResponse(UserAccounts[token])]

\* @require_admin: the status the wrapper answers with, 0 when it calls the
\* endpoint.  Reading an attribute that the object does not have raises
\* AttributeError, which no handler catches (500).
require_admin(current_user) ==
    IF "is_admin" \notin DOMAIN current_user THEN 500
    ELSE IF ~current_user.is_admin THEN 403
    ELSE 0

AdminOps == {"start", "complete", "reject"}

\* The service method an admin endpoint calls
AdminCall(op, id, admin_user_id) ==
    CASE op = "start" ->
             admin_start_filing(tax_declarations, Now, id, admin_user_id)
      [] op = "complete" ->
             admin_complete_filing(tax_declarations, Now, id, admin_user_id,
                                   None, None)
      [] op = "reject" ->
             admin_reject_declaration(tax_declarations, Now, id,
                                      admin_user_id, "", None)

\* POST /admin/declarations/{declaration_id}/start, /complete or /reject
\* with a bearer token
AdminRequest(token, op, id) ==
    \E auth \in {get_current_user(token)} :
    \E refusal \in {IF auth.http # 0 THEN auth.http
                    ELSE require_admin(auth.user)} :
    \E r \in {IF refusal # 0
              THEN Outcome(tax_declarations, id, "refused", None)
              ELSE AdminCall(op, id, auth.user.id)} :
        /\ tax_declarations' = r.coll
        /\ last' = [token |-> token] @@
                   Called(op, <<>>, id, <<auth.user.id>>, r,
                          IF refusal # 0 THEN refusal
                          ELSE ValueErrorStatus(r.svc),
                          tax_declarations)
        /\ UNCHANGED <<transactions, clock, procs>>

AdminRequests ==
    \E token \in Tokens, op \in AdminOps, id \in DeclIds :
        AdminRequest(token, op, id)

NextAdmin ==
    \/ Tick
    \/ AddIncome
    \/ RaceRequest
    \/ FiguresPay
    \/ RaceMark
    \/ AdminRequests

SpecAdmin == Init /\ [][NextAdmin]_vars

\* The statuses that the admin endpoints set
AdminStatuses == {IN_PROGRESS, FILED_BY_ADMIN, REJECTED}

\* The last request was a start, complete or reject with this token
AdminRequestBy(token) == last.op \in AdminOps /\ last.token = token

\* C39: admin-only transitions: a declaration's status changes to
\* in_progress, filed_by_admin or rejected only through a request whose
\* authenticated principal has is_admin = true; a start, complete or reject
\* request of a principal who is not an admin is refused with 403 and
\* changes no declaration, and one without authentication is refused with
\* 401.
C39_AdminOnly ==
    /\ \A i \in DOMAIN last.before :
           (Decl(i).status \in AdminStatuses
            /\ Decl(i).status # Before(i).status)
               => AdminRequestBy("a1")
    /\ AdminRequestBy("u1") => last.http = 403 /\ Unchanged
    /\ AdminRequestBy("") => last.http = 401 /\ Unchanged

\* The request of the user u1 for a paid declaration is answered with 500
C39_UserGets500 ==
    /\ AdminRequestBy("u1") /\ last.op = "start"
    /\ StatusOf(tax_declarations, last.id) = PAYMENT_RECEIVED
    /\ last.http = 500

\* The request of the admin a1 to start a paid declaration is answered with
\* 500 as well, and the declaration is not started
C39_AdminGets500 ==
    /\ AdminRequestBy("a1") /\ last.op = "start"
    /\ StatusOf(tax_declarations, last.id) = PAYMENT_RECEIVED
    /\ last.http = 500

\* No request that is refused changes a declaration, and no declaration
\* takes a status of the admin endpoints through a request of another
\* principal than an admin
C39_RefusedChangesNothing ==
    /\ \A i \in DOMAIN last.before :
           (Decl(i).status \in AdminStatuses
            /\ Decl(i).status # Before(i).status)
               => AdminRequestBy("a1")
    /\ (last.op \in AdminOps /\ last.svc = "refused") => Unchanged
    /\ AdminRequestBy("") => last.http = 401

\* A request without a valid token for a paid declaration is answered 401
C39_Unauthenticated ==
    /\ AdminRequestBy("")
    /\ StatusOf(tax_declarations, last.id) = PAYMENT_RECEIVED
    /\ last.http = 401

---------------------------------------------------------------------------
(* The admin recorded on a filed declaration (Spec)                         *)

\* The last request was a completion that succeeded
Completed == last.op = "complete" /\ last.svc = "ok"

\* C40: filed_by_admin_id is the admin user who filed: after admin complete
\* filing succeeds, the declaration's filed_by_admin_id equals the id of the
\* admin who performed the completion, also when a different admin had
\* started the filing.
C40_FiledByCompleter ==
    Completed => Decl(last.id).filed_by_admin_id = last.args[1]

\* One admin started the filing, another completed it, and the declaration
\* names the one who started
C40_NamesStarter ==
    /\ Completed
    /\ Decl(last.id).status = FILED_BY_ADMIN
    /\ last.args[1] = "a2"
    /\ Decl(last.id).filed_by_admin_id = "a1"

\* A completion leaves filed_by_admin_id as the start of the filing set it
C40_KeepsStarter ==
    Completed =>
        /\ Before(last.id).filed_by_admin_id \in Admins
        /\ Decl(last.id).filed_by_admin_id = Before(last.id).filed_by_admin_id

====
